---- MODULE Spec2Model ----
(***************************************************************************)
(* MAByteString / MAByteStringBuilder of the mastring crate: the tagged    *)
(* four-word handle, the heap it points into, the control blocks and the   *)
(* threads that clone, mutate and drop handles.                            *)
(*                                                                         *)
(* The model is that of a 16-bit target: size_of::<usize>() is 2, so that  *)
(* SHORTLEN is 7 and every value of a usize, the control block's included, *)
(* is a number TLC can hold.                                               *)
(*                                                                         *)
(* Memory is a row of regions of REGION bytes; an allocation takes the     *)
(* lowest free region, and a byte allocation (a Vec<u8>, of alignment 1)   *)
(* may start at an address that is not aligned for an AtomicUsize, which   *)
(* is what the align_offset arithmetic of InnerLong::from_vec is for.      *)
(* Pointers are addresses, so InnerLong::usablecap compares them as the    *)
(* code does.                                                              *)
(***************************************************************************)
EXTENDS Integers, Sequences, FiniteSets, TLC

\* ------------------------------------------------------------ target
SIZEOF_USIZE == 2
ALIGNOF_ATOMIC == SIZEOF_USIZE
SHORTLEN == 4 * SIZEOF_USIZE - 1
USIZE_MAX == 256 ^ SIZEOF_USIZE - 1
USIZE_MAX_HALF == USIZE_MAX \div 2
NULL == 0

\* ------------------------------------------------------------ bounds
NRegions == 7
MaxHandles == 3
MaxReq == 24
\* the capacity asked of reserve
ReserveReq == 20
\* constructor calls and mutating calls in one behaviour
MaxCtor == 1
MaxMut == 1
\* mutating calls in a behaviour of SpecRoundTrip
MaxMutRoundTrip == 3
\* mutating calls in a behaviour of SpecStatic
MaxMutStatic == 2
\* mutating calls in a behaviour of SpecBuilder
MaxMutBuilder == 2
\* mutating calls in a behaviour of SpecReserve
MaxMutReserve == 1
\* mutating calls in a behaviour of SpecGrow
MaxMutGrow == 1
\* calls of join in a behaviour of SpecJoin, and the most items joined
MaxJoinCalls == 1
MaxJoin == 16
\* calls of fmt in a behaviour of SpecDebug, and the most bytes formatted
\* besides the two strings of test_debug
MaxDebugCalls == 1
MaxDebugLen == 3

REGION == 32 * SIZEOF_USIZE
Regions == 1..NRegions
Handles == 1..MaxHandles
Threads == {1, 2}
Misaligns == {0, 1}

Max(a, b) == IF a >= b THEN a ELSE b
Min(a, b) == IF a <= b THEN a ELSE b
SetMin(S) == CHOOSE x \in S : \A y \in S : x <= y

\* ptr.align_offset(a)
AlignOffset(addr, a) == (a - (addr % a)) % a
\* n & !(a - 1)
AlignDown(n, a) == n - (n % a)
\* (n + mask) & !mask
AlignUp(n, a) == AlignDown(n + (a - 1), a)

\* ------------------------------------------------------------ inputs
Pattern(n, k) == [i \in 1..n |-> k + i]
S0 == << >>
S4 == Pattern(4, 10)
SMax == Pattern(SHORTLEN, 20)
LMin == Pattern(SHORTLEN + 1, 40)
LVec == Pattern(SHORTLEN + 3, 60)
StaticLong == Pattern(SHORTLEN + 3, 80)
Zeros(n) == [i \in 1..n |-> 0]

\* ------------------------------------------------------------ state
VARIABLES
    hs,     \* the handles (MAByteString or MAByteStringBuilder values) by slot
    heap,   \* the regions of memory
    th,     \* what each thread is in the middle of
    vec,    \* the Vec<u8> last returned by into_vec, until its owner drops it
    snap,   \* per slot, the bytes seen through the handle after the last operation on it
    orig,   \* per slot, the constructor's argument while the contents are as constructed
    run,    \* the clones of one handle made since it was last a unique Long buffer
    last,   \* the step just taken: operation, slot, allocations, frees, atomic operations
            \* and, in ord, what make_unique, clear and drop did to a control block's
            \* value and to memory, in program order
    err,    \* memory errors met so far
    fuel,   \* constructor calls and mutating calls the behaviour has left
    vecmis  \* how far off usize alignment the allocator places byte buffers

vars == <<hs, heap, th, vec, snap, orig, run, last, err, fuel, vecmis>>

NoCb == 0 - 1
FreeCell == [st |-> "free", mis |-> 0, cap |-> 0, bytes |-> << >>, cboff |-> NoCb, cbv |-> 0]
StaticRegion == 1
StaticCell == [st |-> "static", mis |-> 0, cap |-> Len(StaticLong), bytes |-> StaticLong,
               cboff |-> NoCb, cbv |-> 0]

NoHandle == [k |-> "none"]
Idle == [pc |-> "idle", src |-> 0, dst |-> 0, cbptr |-> NULL, newcb |-> NULL,
         long |-> NoHandle, oldcb |-> 0, op |-> "none"]
NoOrig == [ok |-> FALSE, s |-> << >>, by |-> "none", fresh |-> FALSE]
NoVec == [live |-> FALSE, ptr |-> NULL, len |-> 0, cap |-> 0, from |-> NoOrig, h |-> 0]
NoRun == [h |-> 0, clones |-> {}, allocs |-> 0, first |-> 0, frees |-> 0, par |-> FALSE]

\* ------------------------------------------------------------ memory
Base(m, r) == r * REGION + m[r].mis
RegionOf(a) == a \div REGION
FreeRegions(m) == {r \in Regions : m[r].st = "free"}
\* the allocator: the lowest free region
NewRegion(m) == SetMin(FreeRegions(m))

IsPayloadPtr(m, p) ==
    /\ RegionOf(p) \in Regions
    /\ m[RegionOf(p)].st = "payload"
    /\ Base(m, RegionOf(p)) = p

IsBoxPtr(m, p) ==
    /\ RegionOf(p) \in Regions
    /\ m[RegionOf(p)].st = "box"
    /\ Base(m, RegionOf(p)) = p

IsReadablePtr(m, p) ==
    /\ RegionOf(p) \in Regions
    /\ m[RegionOf(p)].st \in {"payload", "static"}
    /\ Base(m, RegionOf(p)) = p

CbValid(m, p) ==
    /\ p # NULL
    /\ RegionOf(p) \in Regions
    /\ \/ m[RegionOf(p)].st = "box" /\ p = Base(m, RegionOf(p))
       \/ /\ m[RegionOf(p)].st = "payload"
          /\ m[RegionOf(p)].cboff # NoCb
          /\ p = Base(m, RegionOf(p)) + m[RegionOf(p)].cboff

\* (*cbptr).load(..)
CbLoad(m, p) == IF CbValid(m, p) THEN m[RegionOf(p)].cbv ELSE 0
CbStore(m, p, v) == IF CbValid(m, p) THEN [m EXCEPT ![RegionOf(p)].cbv = v] ELSE m

Garbage == << 0 - 1 >>
\* slice::from_raw_parts(ptr, len)
ReadBytes(m, p, len) ==
    IF IsReadablePtr(m, p) /\ len <= Len(m[RegionOf(p)].bytes)
    THEN SubSeq(m[RegionOf(p)].bytes, 1, len)
    ELSE Garbage

\* ptr::copy_nonoverlapping(src, ptr.add(at), src.len()); an inline control
\* block that the bytes run over is no longer a control block
WriteBytes(m, p, at, s) ==
    LET r == RegionOf(p)
        old == m[r].bytes
        keep == IF Len(old) >= at THEN SubSeq(old, 1, at) ELSE old \o Zeros(at - Len(old))
        tail == IF Len(old) > at + Len(s) THEN SubSeq(old, at + Len(s) + 1, Len(old)) ELSE << >>
        over == m[r].cboff # NoCb /\ at + Len(s) > m[r].cboff
    IN  [m EXCEPT ![r].bytes = keep \o s \o tail,
                  ![r].cboff = IF over THEN NoCb ELSE @,
                  ![r].cbv = IF over THEN 0 ELSE @]

\* fault: a Box whose value has the inline flag set
BoxNew_flagged(m, r, v) ==
    [m EXCEPT ![r] = [st |-> "box", mis |-> 0, cap |-> SIZEOF_USIZE, bytes |-> << >>,
                      cboff |-> 0, cbv |-> v + 1]]

\* fault: a Box that does not count the handle cloned
BoxNew_uncounted(m, r, v) ==
    [m EXCEPT ![r] = [st |-> "box", mis |-> 0, cap |-> SIZEOF_USIZE, bytes |-> << >>,
                      cboff |-> 0, cbv |-> v - 2]]

\* Box::new(AtomicUsize::new(v)) in region r
BoxNew(m, r, v) ==
    [m EXCEPT ![r] = [st |-> "box", mis |-> 0, cap |-> SIZEOF_USIZE, bytes |-> << >>,
                      cboff |-> 0, cbv |-> v]]
\* Vec::with_capacity(cap) followed by extend_from_slice(s), in region r
VecNew(m, r, mis, cap, s) ==
    [m EXCEPT ![r] = [st |-> "payload", mis |-> mis, cap |-> cap, bytes |-> s,
                      cboff |-> NoCb, cbv |-> 0]]
MemFree(m, p) == IF RegionOf(p) \in Regions THEN [m EXCEPT ![RegionOf(p)] = FreeCell] ELSE m

\* ------------------------------------------------------------ InnerLong
Long(ty, len, cap, ptr, cbptr) ==
    [k |-> "long", ty |-> ty, len |-> len, cap |-> cap, ptr |-> ptr, cbptr |-> cbptr]
Short(ty, s) ==
    [k |-> "short", ty |-> ty, slen |-> Len(s) + 128, data |-> s \o Zeros(SHORTLEN - Len(s))]

\* the most significant byte of the word the two layouts share
LenTopByte(h) == IF h.k = "short" THEN h.slen ELSE h.len \div (256 ^ (SIZEOF_USIZE - 1))
\* len > isize::max as usize, in a build in which the address of the function
\* isize::max, which is what the cast gives, is at least every length a Long
\* buffer has and less than 0x80 shifted into the most significant byte
IsInline(h) == LenTopByte(h) > 127
\* (len >> ((size_of::<usize>() - 1) * 8)) - 0x80
ShortLen(h) == LenTopByte(h) - 128

\* the bytes of a word, least significant first
WordBytes(n, k) == [i \in 1..k |-> (n \div (256 ^ (i - 1))) % 256]
\* the bytes InnerShort.data shares with the fields of an InnerLong
LongAsData(l) ==
    WordBytes(l.cap, SIZEOF_USIZE) \o WordBytes(l.ptr, SIZEOF_USIZE)
        \o WordBytes(l.cbptr, SIZEOF_USIZE) \o WordBytes(l.len, SIZEOF_USIZE - 1)

\* fault: from_vec that places the control block without align_offset
InnerLong_from_vec_unaligned(m, ty, r, allowcb, mincap) ==
    LET len == Len(m[r].bytes)
        cap == m[r].cap
        mc == Max(len, mincap)
        ptr == Base(m, r)
        cbrequired == mc + SIZEOF_USIZE
        fits == allowcb /\ cbrequired <= cap
        cbstart == mc + AlignDown(cap - cbrequired, ALIGNOF_ATOMIC)
    IN  [long |-> Long(ty, len, cap, ptr, IF fits THEN ptr + cbstart ELSE NULL),
         m |-> IF fits THEN [m EXCEPT ![r].cboff = cbstart, ![r].cbv = 3] ELSE m]

\* the word whose bytes, least significant first, are s
RECURSIVE WordOf(_)
WordOf(s) == IF s = << >> THEN 0 ELSE Head(s) + 256 * WordOf(Tail(s))
\* the fields of an InnerLong read from the bytes of an InnerShort
ShortAsLong(h) ==
    LET b == h.data \o << h.slen >>
        w == SIZEOF_USIZE
    IN  [k |-> "long", ty |-> h.ty,
         cap |-> WordOf(SubSeq(b, 1, w)),
         ptr |-> WordOf(SubSeq(b, w + 1, 2 * w)),
         cbptr |-> WordOf(SubSeq(b, 2 * w + 1, 3 * w)),
         len |-> WordOf(SubSeq(b, 3 * w + 1, 4 * w))]

InnerLong_from_vec(m, ty, r, allowcb, mincap) ==
    LET len == Len(m[r].bytes)
        cap == m[r].cap
        mc == Max(len, mincap)
        ptr == Base(m, r)
        end == ptr + mc
        cbstart0 == mc + AlignOffset(end, ALIGNOF_ATOMIC)
        cbrequired == cbstart0 + SIZEOF_USIZE
        fits == allowcb /\ cbrequired <= cap
        cbstart == cbstart0 + AlignDown(cap - cbrequired, ALIGNOF_ATOMIC)
    IN  [long |-> Long(ty, len, cap, ptr, IF fits THEN ptr + cbstart ELSE NULL),
         m |-> IF fits THEN [m EXCEPT ![r].cboff = cbstart, ![r].cbv = 3] ELSE m]

\* fault: from_slice that leaves no room for the control block
InnerLong_from_slice_tight(m, ty, r, mis, s, allowcb, mincap) ==
    InnerLong_from_vec(VecNew(m, r, mis, Max(Len(s), mincap), s), ty, r, allowcb, mincap)

InnerLong_from_slice(m, ty, r, mis, s, allowcb, mincap) ==
    LET len == Max(Len(s), mincap)
        veccap == AlignUp(len, ALIGNOF_ATOMIC) + SIZEOF_USIZE
    IN  InnerLong_from_vec(VecNew(m, r, mis, veccap, s), ty, r, allowcb, mincap)

\* fault: usablecap that takes no account of the control block
InnerLong_usablecap_whole(l) == l.cap

InnerLong_usablecap(l) ==
    IF l.cbptr < l.ptr THEN l.cap ELSE Min(l.cbptr - l.ptr, l.cap)

\* the word at InnerLong.len, whichever layout the handle was written in
LenWord(h) == IF h.k = "short" THEN ShortAsLong(h).len ELSE h.len
\* addresses a build may give the function isize::max (Ord::max for isize):
\* one that a Long length exceeds, usize::MAX / 2, and one with the most
\* significant bit set
FnAddrs == {SHORTLEN + 1, USIZE_MAX_HALF, USIZE_MAX_HALF + 1 + 256 * SHORTLEN}
\* len > isize::max as usize, where the function isize::max is at address a
IsInlineAt(a, h) == LenWord(h) > a

\* ------------------------------------------------------------ reading a handle
\* Deref::deref
Deref(m, h) ==
    IF IsInline(h) THEN SubSeq(h.data, 1, ShortLen(h)) ELSE ReadBytes(m, h.ptr, h.len)

get_mode(m, h) ==
    IF IsInline(h) THEN "short"
    ELSE IF h.cap = 0 THEN "static"
    ELSE IF h.cbptr = NULL THEN "unique"
    ELSE IF CbLoad(m, h.cbptr) % 2 = 0
         THEN (IF CbLoad(m, h.cbptr) <= 3 THEN "cbowned (unique)" ELSE "cbowned (shared)")
         ELSE (IF CbLoad(m, h.cbptr) <= 3 THEN "cbinline (unique)" ELSE "cbinline (shared)")

capacity(h) == IF IsInline(h) THEN SHORTLEN ELSE InnerLong_usablecap(h)

\* fault: equality of the handles' fields
eq_fields(m, a, b) == a = b

\* PartialEq: self.deref() == other.deref()
eq(m, a, b) == Deref(m, a) = Deref(m, b)

\* Ord for [u8]: the first byte that differs decides, then the length
RECURSIVE slice_cmp(_, _)
slice_cmp(s, t) ==
    IF s = << >> THEN (IF t = << >> THEN "Equal" ELSE "Less")
    ELSE IF t = << >> THEN "Greater"
    ELSE IF Head(s) < Head(t) THEN "Less"
    ELSE IF Head(s) > Head(t) THEN "Greater"
    ELSE slice_cmp(Tail(s), Tail(t))

\* Ord: self.deref().cmp(other.deref())
cmp(m, a, b) == slice_cmp(Deref(m, a), Deref(m, b))

\* Hash: self.deref().hash(state); what Hash for [u8] writes to the Hasher is
\* the length and then the bytes
hash(m, a) == << Len(Deref(m, a)) >> \o Deref(m, a)

\* slots a thread has set aside for the clone it is making
Reserved == {th[t].dst : t \in Threads} \ {0}
FreeSlots == {h \in Handles : hs[h].k = "none"} \ Reserved
\* handles some thread is cloning from (a shared borrow)
Borrowed == {th[t].src : t \in Threads} \ {0}
IdleThreads == {t \in Threads : th[t].pc = "idle"}

\* allocations made and freed between two states of memory
AllocCount(m, m2) == Cardinality({r \in Regions : m[r].st = "free" /\ m2[r].st # "free"})
FreeCount(m, m2) == Cardinality({r \in Regions : m[r].st # "free" /\ m2[r].st = "free"})
Step(op, h, src, m, m2, at) ==
    [op |-> op, h |-> h, src |-> src, allocs |-> AllocCount(m, m2),
     frees |-> FreeCount(m, m2), atomics |-> at, req |-> 0, ord |-> << >>,
     out |-> << >>]

\* ------------------------------------------------------------ growth and uniqueness
\* What an operation on one handle comes to: the handle and memory after it,
\* the InnerLong it let go of while others may still hold the payload (old),
\* what it cost, the capacity asked for if the operation is reserve, and the
\* atomic operations, fences and frees of make_unique, clear and drop in it.
Outcome(h, m, old, at, e) ==
    [h |-> h, m |-> m, old |-> old, atomics |-> at, err |-> e, req |-> 0, ord |-> << >>]

\* Drop for InnerLong, run in one piece: for a value no other thread can reach
InnerLong_drop(m, l) ==
    IF l.cap = 0 THEN [m |-> m, atomics |-> 0, err |-> {}, ord |-> << >>]
    ELSE IF l.cbptr = NULL
    THEN [m |-> MemFree(m, l.ptr), atomics |-> 0, ord |-> << "free.ptr" >>,
          err |-> IF IsPayloadPtr(m, l.ptr) THEN {} ELSE {"bad_free"}]
    ELSE LET oldcb == CbLoad(m, l.cbptr)
             m1 == CbStore(m, l.cbptr, oldcb - 2)
             e1 == IF CbValid(m, l.cbptr) THEN {} ELSE {"use_after_free"}
         IN  IF oldcb > 3
             THEN [m |-> m1, atomics |-> 1, err |-> e1, ord |-> << "fetch_sub.Release" >>]
             ELSE LET m2 == IF oldcb % 2 = 0 THEN MemFree(m1, l.cbptr) ELSE m1
                  IN  [m |-> MemFree(m2, l.ptr),
                       atomics |-> 1,
                       ord |-> << "fetch_sub.Release", "fence.Acquire" >>
                                  \o (IF oldcb % 2 = 0 THEN << "free.cbptr" >> ELSE << >>)
                                  \o << "free.ptr" >>,
                       err |-> e1 \cup (IF IsPayloadPtr(m2, l.ptr) THEN {} ELSE {"bad_free"})
                                  \cup (IF oldcb % 2 = 0 /\ ~IsBoxPtr(m1, l.cbptr)
                                        THEN {"bad_free"} ELSE {})]

\* fault: a copy that leaves the last byte out
MakeCopy_short(m, l, mis, mincap, allowcb) ==
    LET r == InnerLong_from_slice(m, l.ty, NewRegion(m), mis, ReadBytes(m, l.ptr, l.len - 1),
                                  allowcb, mincap)
    IN  Outcome([r.long EXCEPT !.len = l.len], r.m, l, 0, {})

\* the copy both branches of make_unique make
MakeCopy(m, l, mis, mincap, allowcb) ==
    LET r == InnerLong_from_slice(m, l.ty, NewRegion(m), mis, ReadBytes(m, l.ptr, l.len),
                                  allowcb, mincap)
    IN  Outcome(r.long, r.m, l, 0,
                IF IsReadablePtr(m, l.ptr) THEN {} ELSE {"use_after_free"})

\* fault: make_unique that reads the control block's value as the count
InnerLong_make_unique_raw_value(m, l, mis, mincap, allowcb) ==
    IF l.cap = 0 THEN MakeCopy(m, l, mis, mincap, allowcb)
    ELSE IF l.cbptr = NULL \/ CbLoad(m, l.cbptr) > 1 THEN Outcome(l, m, NoHandle, 1, {})
    ELSE MakeCopy(m, l, mis, mincap, allowcb)

InnerLong_make_unique(m, l, mis, mincap, allowcb) ==
    IF l.cap = 0 THEN MakeCopy(m, l, mis, mincap, allowcb)
    ELSE IF l.cbptr = NULL THEN Outcome(l, m, NoHandle, 0, {})
    ELSE LET cbval == CbLoad(m, l.cbptr)
             refcount == cbval \div 2
             e == IF CbValid(m, l.cbptr) THEN {} ELSE {"use_after_free"}
         IN  IF refcount = 1
             THEN IF ~allowcb
                  THEN [Outcome([l EXCEPT !.cbptr = NULL],
                                IF cbval % 2 = 0 THEN MemFree(m, l.cbptr) ELSE m,
                                NoHandle, 2, e)
                           EXCEPT !.ord = << "load.Relaxed", "load.Relaxed" >>
                                          \o (IF cbval % 2 = 0 THEN << "free.cbptr" >> ELSE << >>)]
                  ELSE [Outcome(l, m, NoHandle, 1, e) EXCEPT !.ord = << "load.Relaxed" >>]
             ELSE LET c == MakeCopy(m, l, mis, mincap, allowcb)
                  IN  [c EXCEPT !.atomics = 1, !.err = @ \cup e, !.ord = << "load.Relaxed" >>]

\* fault: reserve that keeps an inline control block within the capacity asked for
InnerLong_reserve_keepcb(o, mis, mincap, allowcb) ==
    LET l == o.h
        cap == l.cap
    IN  IF mincap <= cap THEN o
        ELSE LET mc == Max(mincap, cap * 2)
                 r == InnerLong_from_slice(o.m, l.ty, NewRegion(o.m), mis,
                                           ReadBytes(o.m, l.ptr, l.len), allowcb, mc)
                 d == InnerLong_drop(r.m, l)
             IN  [o EXCEPT !.h = r.long, !.m = d.m, !.atomics = @ + d.atomics,
                           !.err = @ \cup d.err]

\* fault: reserve that discards the control block whenever it keeps the buffer
InnerLong_reserve_dropcb(o, mis, mincap, allowcb) ==
    LET l == o.h
        cap == l.cap
    IN  IF mincap <= cap
        THEN [o EXCEPT !.h = [l EXCEPT !.cbptr = NULL]]
        ELSE LET mc == Max(mincap, cap * 2)
                 r == InnerLong_from_slice(o.m, l.ty, NewRegion(o.m), mis,
                                           ReadBytes(o.m, l.ptr, l.len), allowcb, mc)
                 d == InnerLong_drop(r.m, l)
             IN  [o EXCEPT !.h = r.long, !.m = d.m, !.atomics = @ + d.atomics,
                           !.err = @ \cup d.err]

\* fault: reserve that reallocates when the control block is in the way
InnerLong_reserve_realloc(o, mis, mincap, allowcb) ==
    LET l == o.h
        cap == l.cap
    IN  IF mincap <= InnerLong_usablecap(l) THEN o
        ELSE LET mc == Max(mincap, cap * 2)
                 r == InnerLong_from_slice(o.m, l.ty, NewRegion(o.m), mis,
                                           ReadBytes(o.m, l.ptr, l.len), allowcb, mc)
                 d == InnerLong_drop(r.m, l)
             IN  [o EXCEPT !.h = r.long, !.m = d.m, !.atomics = @ + d.atomics,
                           !.err = @ \cup d.err]

\* fault: reserve that allocates what was asked for and no more
InnerLong_reserve_exact(o, mis, mincap, allowcb) ==
    LET l == o.h
        cap == l.cap
    IN  IF mincap <= cap
        THEN IF mincap <= InnerLong_usablecap(l) THEN o
             ELSE [o EXCEPT !.h = [l EXCEPT !.cbptr = NULL]]
        ELSE LET r == InnerLong_from_slice(o.m, l.ty, NewRegion(o.m), mis,
                                           ReadBytes(o.m, l.ptr, l.len), allowcb, mincap)
                 d == InnerLong_drop(r.m, l)
             IN  [o EXCEPT !.h = r.long, !.m = d.m, !.atomics = @ + d.atomics,
                           !.err = @ \cup d.err]

\* InnerLong::reserve, on the outcome o of make_unique (or on a builder)
InnerLong_reserve(o, mis, mincap, allowcb) ==
    LET l == o.h
        cap == l.cap
    IN  IF mincap <= cap
        THEN IF mincap <= InnerLong_usablecap(l) THEN o
             ELSE [o EXCEPT !.h = [l EXCEPT !.cbptr = NULL]]
        ELSE LET mc == Max(mincap, cap * 2)
                 r == InnerLong_from_slice(o.m, l.ty, NewRegion(o.m), mis,
                                           ReadBytes(o.m, l.ptr, l.len), allowcb, mc)
                 d == InnerLong_drop(r.m, l)
             IN  [o EXCEPT !.h = r.long, !.m = d.m, !.atomics = @ + d.atomics,
                           !.err = @ \cup d.err, !.ord = @ \o d.ord]

\* fault: a Short handle made Long with the capacity asked for and no more
Promote_exact(m, h, mis, mincap) ==
    LET r == InnerLong_from_slice(m, h.ty, NewRegion(m), mis, SubSeq(h.data, 1, ShortLen(h)),
                                  h.ty = "s", mincap)
    IN  Outcome(r.long, r.m, NoHandle, 0, {})

\* a Short handle made Long
Promote(m, h, mis, mincap) ==
    LET r == InnerLong_from_slice(m, h.ty, NewRegion(m), mis, SubSeq(h.data, 1, ShortLen(h)),
                                  h.ty = "s", Max(mincap, SHORTLEN * 2))
    IN  Outcome(r.long, r.m, NoHandle, 0, {})

\* fault: reserve that leaves a buffer of sufficient capacity where it is
MAByteString_reserve_lazy(m, h, mis, mincap) ==
    IF IsInline(h)
    THEN IF mincap > SHORTLEN THEN Promote(m, h, mis, mincap)
         ELSE Outcome(h, m, NoHandle, 0, {})
    ELSE IF h.cap # 0 /\ mincap <= InnerLong_usablecap(h) THEN Outcome(h, m, NoHandle, 0, {})
    ELSE InnerLong_reserve(InnerLong_make_unique(m, h, mis, mincap, TRUE), mis, mincap, TRUE)

MAByteString_reserve(m, h, mis, mincap) ==
    IF IsInline(h)
    THEN IF mincap > SHORTLEN THEN Promote(m, h, mis, mincap)
         ELSE Outcome(h, m, NoHandle, 0, {})
    ELSE InnerLong_reserve(InnerLong_make_unique(m, h, mis, mincap, TRUE), mis, mincap, TRUE)

\* the handle's length, whichever layout it has
LenOf(h) == IF IsInline(h) THEN ShortLen(h) ELSE h.len

\* fault: reserve_extra_internal that asks for the present length only
reserve_extra_internal_exact(m, h, mis, extracap) ==
    MAByteString_reserve(m, h, mis, LenOf(h))

reserve_extra_internal(m, h, mis, extracap) ==
    MAByteString_reserve(m, h, mis, LenOf(h) + extracap)

\* the bytes of s laid over the handle's bytes from offset at on
Store(o, at, s) ==
    IF IsInline(o.h)
    THEN [o EXCEPT !.h.data = SubSeq(@, 1, at) \o s \o SubSeq(@, at + Len(s) + 1, SHORTLEN)]
    ELSE [o EXCEPT !.m = IF IsPayloadPtr(o.m, o.h.ptr) THEN WriteBytes(o.m, o.h.ptr, at, s) ELSE @,
                   !.err = @ \cup (IF IsPayloadPtr(o.m, o.h.ptr) THEN {} ELSE {"bad_write"})]

SetLen(o, n) ==
    IF IsInline(o.h) THEN [o EXCEPT !.h.slen = n + 128] ELSE [o EXCEPT !.h.len = n]

add_assign(m, h, mis, other) ==
    LET o == reserve_extra_internal(m, h, mis, Len(other))
    IN  SetLen(Store(o, LenOf(h), other), LenOf(h) + Len(other))

\* fault: deref_mut that hands the payload out without make_unique
deref_mut_in_place(m, h, mis, i, v) ==
    LET o == Outcome(h, m, NoHandle, 0, {})
    IN  IF i < LenOf(h) THEN Store(o, i, << v >>) ELSE o

\* deref_mut, and one byte written through the slice it returns
deref_mut(m, h, mis, i, v) ==
    LET o == IF IsInline(h) THEN Outcome(h, m, NoHandle, 0, {})
             ELSE InnerLong_make_unique(m, h, mis, 0, TRUE)
    IN  IF i < LenOf(h) THEN Store(o, i, << v >>) ELSE o

\* fault: clear that lets go of every owned buffer
clear_reset(m, h) ==
    IF IsInline(h) THEN Outcome([h EXCEPT !.slen = 128], m, NoHandle, 0, {})
    ELSE IF h.cap = 0
         THEN Outcome([k |-> "short", ty |-> h.ty, slen |-> 128, data |-> LongAsData(h)],
                      m, NoHandle, 0, {})
    ELSE Outcome(Short(h.ty, S0), m, h, 0, {})

clear(m, h) ==
    IF IsInline(h) THEN Outcome([h EXCEPT !.slen = 128], m, NoHandle, 0, {})
    ELSE IF h.cap = 0
         THEN Outcome([k |-> "short", ty |-> h.ty, slen |-> 128, data |-> LongAsData(h)],
                      m, NoHandle, 0, {})
    ELSE IF h.cbptr = NULL THEN Outcome([h EXCEPT !.len = 0], m, NoHandle, 0, {})
    ELSE IF CbLoad(m, h.cbptr) \div 2 = 1
         THEN [Outcome([h EXCEPT !.len = 0], m, NoHandle, 1,
                       IF CbValid(m, h.cbptr) THEN {} ELSE {"use_after_free"})
                  EXCEPT !.ord = << "load.Relaxed" >>]
         ELSE [Outcome(Short(h.ty, S0), m, h, 1,
                       IF CbValid(m, h.cbptr) THEN {} ELSE {"use_after_free"})
                  EXCEPT !.ord = << "load.Relaxed" >>]

\* clear as src/src/lib.rs has it: the test for a static string is not in an
\* else branch, so it is made of a Short buffer too, whose bytes are then read
\* as the fields of an InnerLong. one is what the read through a cbptr that
\* points at no control block gives on the question "is the count 1".
lib_clear(m, h, one) ==
    IF ~IsInline(h) THEN clear(m, h)
    ELSE LET s == [h EXCEPT !.slen = 128]
             l == ShortAsLong(s)
         IN  IF l.cap = 0 THEN Outcome(s, m, NoHandle, 0, {})
             ELSE IF l.cbptr = NULL THEN Outcome([l EXCEPT !.len = 0], m, NoHandle, 0, {})
             ELSE IF (IF CbValid(m, l.cbptr) THEN CbLoad(m, l.cbptr) \div 2 = 1 ELSE one)
                  THEN Outcome([l EXCEPT !.len = 0], m, NoHandle, 1,
                               IF CbValid(m, l.cbptr) THEN {} ELSE {"wild_read"})
                  ELSE Outcome(Short(h.ty, S0), m, NoHandle, 1,
                               IF CbValid(m, l.cbptr) THEN {} ELSE {"wild_read"})

\* ------------------------------------------------------------ constructors
\* a constructor's result lands in the lowest free slot
Construct(op, hnd, m, s) ==
    /\ FreeSlots # {}
    /\ LET h == SetMin(FreeSlots) IN
        /\ hs' = [hs EXCEPT ![h] = hnd]
        /\ heap' = m
        /\ snap' = [snap EXCEPT ![h] = Deref(m, hnd)]
        /\ orig' = [orig EXCEPT ![h] = [ok |-> TRUE, s |-> s, by |-> op, fresh |-> TRUE]]
        /\ last' = Step(op, h, 0, heap, m, 0)
    /\ run' = NoRun
    /\ UNCHANGED <<th, err, vecmis>>

\* a constructor that takes its argument by reference
ConstructFrom(op, hnd, m, s) ==
    /\ fuel.ctor > 0
    /\ fuel' = [fuel EXCEPT !.ctor = @ - 1]
    /\ Construct(op, hnd, m, s)

MAByteString_new ==
    /\ ConstructFrom("new", Short("s", S0), heap, S0)
    /\ UNCHANGED vec

\* fault: from_slice that inlines only fewer than SHORTLEN bytes
MAByteString_from_slice_strict(s) ==
    /\ IF Len(s) < SHORTLEN
       THEN ConstructFrom("from_slice", Short("s", s), heap, s)
       ELSE /\ FreeRegions(heap) # {}
            /\ LET r == InnerLong_from_slice(heap, "s", NewRegion(heap), vecmis, s, TRUE, 0)
               IN  ConstructFrom("from_slice", r.long, r.m, s)
    /\ UNCHANGED vec

MAByteString_from_slice(s) ==
    /\ IF Len(s) <= SHORTLEN
       THEN ConstructFrom("from_slice", Short("s", s), heap, s)
       ELSE /\ FreeRegions(heap) # {}
            /\ LET r == InnerLong_from_slice(heap, "s", NewRegion(heap), vecmis, s, TRUE, 0)
               IN  ConstructFrom("from_slice", r.long, r.m, s)
    /\ UNCHANGED vec

\* the caller builds a Vec of the given capacity holding s
MakeVec(s, cap) ==
    /\ fuel.ctor > 0
    /\ ~vec.live
    /\ Len(s) <= cap
    /\ FreeRegions(heap) # {}
    /\ fuel' = [fuel EXCEPT !.ctor = @ - 1]
    /\ heap' = IF cap = 0 THEN heap
               ELSE [VecNew(heap, NewRegion(heap), vecmis, cap, s) EXCEPT ![NewRegion(heap)].st = "vec"]
    /\ vec' = [live |-> TRUE, ptr |-> IF cap = 0 THEN NULL ELSE Base(heap', NewRegion(heap)),
               len |-> Len(s), cap |-> cap, from |-> NoOrig, h |-> 0]
    /\ last' = Step("make_vec", 0, 0, heap, heap', 0)
    /\ run' = NoRun
    /\ UNCHANGED <<hs, th, snap, orig, err, vecmis>>

\* the Vec's bytes
VecBytes ==
    IF vec.ptr = NULL THEN << >>
    ELSE IF RegionOf(vec.ptr) \in Regions /\ heap[RegionOf(vec.ptr)].st = "vec"
              /\ vec.len <= Len(heap[RegionOf(vec.ptr)].bytes)
         THEN SubSeq(heap[RegionOf(vec.ptr)].bytes, 1, vec.len)
         ELSE Garbage

\* from_vec takes the Vec the caller built (a Vec that into_vec returned is
\* only ever dropped)
MAByteString_from_vec ==
    /\ vec.live
    /\ vec.h = 0
    /\ vec' = NoVec
    /\ UNCHANGED fuel
    /\ IF vec.len <= SHORTLEN
       THEN Construct("from_vec", Short("s", VecBytes),
                      IF vec.ptr = NULL THEN heap ELSE MemFree(heap, vec.ptr), VecBytes)
       ELSE LET v == RegionOf(vec.ptr)
                r == InnerLong_from_vec([heap EXCEPT ![v].st = "payload"], "s", v, TRUE, 0)
            IN  Construct("from_vec", r.long, r.m, VecBytes)

\* fault: from_static that copies what it is given
MAByteString_from_static_copy(s) ==
    /\ IF Len(s) <= SHORTLEN
       THEN ConstructFrom("from_static", Short("s", s), heap, s)
       ELSE /\ s = heap[StaticRegion].bytes
            /\ FreeRegions(heap) # {}
            /\ LET r == InnerLong_from_slice(heap, "s", NewRegion(heap), vecmis, s, TRUE, 0)
               IN  ConstructFrom("from_static", r.long, r.m, s)
    /\ UNCHANGED vec

MAByteString_from_static(s) ==
    /\ IF Len(s) <= SHORTLEN
       THEN ConstructFrom("from_static", Short("s", s), heap, s)
       ELSE /\ s = heap[StaticRegion].bytes
            /\ ConstructFrom("from_static", Long("s", Len(s), 0, Base(heap, StaticRegion), NULL),
                             heap, s)
    /\ UNCHANGED vec

MAByteStringBuilder_from_slice(s) ==
    /\ IF Len(s) <= SHORTLEN
       THEN ConstructFrom("b_from_slice", Short("b", s), heap, s)
       ELSE /\ FreeRegions(heap) # {}
            /\ LET r == InnerLong_from_slice(heap, "b", NewRegion(heap), vecmis, s, FALSE, 0)
               IN  ConstructFrom("b_from_slice", r.long, r.m, s)
    /\ UNCHANGED vec

MAByteStringBuilder_with_capacity(cap) ==
    /\ IF cap <= SHORTLEN
       THEN ConstructFrom("b_with_capacity", Short("b", S0), heap, S0)
       ELSE /\ FreeRegions(heap) # {}
            /\ LET r == InnerLong_from_slice(heap, "b", NewRegion(heap), vecmis, S0, FALSE, cap)
               IN  ConstructFrom("b_with_capacity", r.long, r.m, S0)
    /\ UNCHANGED vec

\* ------------------------------------------------------------ operations on one handle
\* The thread that lets go of a shared InnerLong drops it in steps of its own.
Apply(op, h, o, keep) ==
    /\ IdleThreads # {}
    /\ fuel.mut > 0
    /\ fuel' = [fuel EXCEPT !.mut = @ - 1]
    /\ UNCHANGED vecmis
    /\ hs' = [hs EXCEPT ![h] = o.h]
    /\ heap' = o.m
    /\ err' = err \cup o.err
    /\ snap' = [snap EXCEPT ![h] = IF o.h.k = "none" THEN << >> ELSE Deref(o.m, o.h)]
    /\ orig' = [orig EXCEPT ![h] = IF keep THEN [@ EXCEPT !.fresh = FALSE] ELSE NoOrig]
    /\ last' = [Step(op, h, 0, heap, o.m, o.atomics) EXCEPT !.req = o.req, !.ord = o.ord]
    /\ th' = IF o.old.k = "none" \/ o.old.cap = 0 THEN th
             ELSE [th EXCEPT ![SetMin(IdleThreads)] =
                      [Idle EXCEPT !.pc = "dec", !.long = o.old, !.op = op]]
    /\ run' = NoRun

Usable(h, ty) ==
    /\ hs[h].k # "none"
    /\ hs[h].ty = ty
    /\ h \notin Borrowed
    /\ FreeRegions(heap) # {}

Reserve(h, mincap) ==
    /\ Usable(h, "s")
    /\ Apply("reserve", h,
             [MAByteString_reserve(heap, hs[h], vecmis, mincap) EXCEPT !.req = mincap], TRUE)
    /\ UNCHANGED vec

AddAssign(h, other) ==
    /\ Usable(h, "s")
    /\ LenOf(hs[h]) + Len(other) <= MaxReq
    /\ Apply("add_assign", h, add_assign(heap, hs[h], vecmis, other), FALSE)
    /\ UNCHANGED vec

DerefMut(h, i, v) ==
    /\ Usable(h, "s")
    /\ Apply("deref_mut", h, deref_mut(heap, hs[h], vecmis, i, v), FALSE)
    /\ UNCHANGED vec

\* fault: clear that forgets the value it replaces
Clear_forget(h) ==
    /\ Usable(h, "s")
    /\ Apply("clear", h, [clear(heap, hs[h]) EXCEPT !.old = NoHandle], FALSE)
    /\ UNCHANGED vec

Clear(h) ==
    /\ Usable(h, "s")
    /\ Apply("clear", h, clear(heap, hs[h]), FALSE)
    /\ UNCHANGED vec

\* MAByteString::clear of src/src/lib.rs
LibClear(h) ==
    /\ Usable(h, "s")
    /\ \E one \in BOOLEAN : Apply("clear", h, lib_clear(heap, hs[h], one), FALSE)
    /\ UNCHANGED vec

\* ------------------------------------------------------------ conversions
\* fault: from_builder that places the control block at the start of the buffer
from_builder_at_start(m, b) ==
    IF IsInline(b) THEN Outcome([b EXCEPT !.ty = "s"], m, NoHandle, 0, {})
    ELSE LET r == RegionOf(b.ptr)
             fits == SIZEOF_USIZE <= b.cap
         IN  Outcome(Long("s", b.len, b.cap, b.ptr, IF fits THEN b.ptr ELSE NULL),
                     IF fits THEN [m EXCEPT ![r].cboff = 0, ![r].cbv = 3] ELSE m,
                     NoHandle, 0, {})

from_builder(m, b) ==
    IF IsInline(b) THEN Outcome([b EXCEPT !.ty = "s"], m, NoHandle, 0, {})
    ELSE LET r == RegionOf(b.ptr)
             end == b.ptr + b.len
             cbstart == b.len + AlignOffset(end, ALIGNOF_ATOMIC)
             cbrequired == cbstart + SIZEOF_USIZE
             fits == cbrequired <= b.cap
         IN  Outcome(Long("s", b.len, b.cap, b.ptr, IF fits THEN b.ptr + cbstart ELSE NULL),
                     IF fits
                     THEN [m EXCEPT ![r].cboff = cbstart, ![r].cbv = 3,
                                    ![r].bytes = IF Len(@) > cbstart THEN SubSeq(@, 1, cbstart) ELSE @]
                     ELSE m,
                     NoHandle, 0, {})

\* fault: from_mabs that takes the InnerLong as it is
from_mabs_as_is(m, s, mis) == Outcome([s EXCEPT !.ty = "b"], m, NoHandle, 0, {})

\* fault: from_mabs that copies whatever the buffer is
from_mabs_copy(m, s, mis) ==
    IF IsInline(s) THEN Outcome([s EXCEPT !.ty = "b"], m, NoHandle, 0, {})
    ELSE LET o == MakeCopy(m, s, mis, 0, FALSE)
         IN  [o EXCEPT !.h.ty = "b"]

from_mabs(m, s, mis) ==
    IF IsInline(s) THEN Outcome([s EXCEPT !.ty = "b"], m, NoHandle, 0, {})
    ELSE LET o == InnerLong_make_unique(m, s, mis, 0, FALSE)
         IN  [o EXCEPT !.h.ty = "b"]

FromBuilder(h) ==
    /\ Usable(h, "b")
    /\ Apply("from_builder", h, from_builder(heap, hs[h]), FALSE)
    /\ UNCHANGED vec

FromMabs(h) ==
    /\ Usable(h, "s")
    /\ Apply("from_mabs", h, from_mabs(heap, hs[h], vecmis), FALSE)
    /\ UNCHANGED vec

\* MAByteStringBuilder::clear
BuilderClear(h) ==
    /\ Usable(h, "b")
    /\ Apply("b_clear", h,
             Outcome(IF IsInline(hs[h]) THEN [hs[h] EXCEPT !.slen = 128]
                     ELSE [hs[h] EXCEPT !.len = 0], heap, NoHandle, 0, {}), FALSE)
    /\ UNCHANGED vec

\* ------------------------------------------------------------ the builder
MAByteStringBuilder_new ==
    /\ ConstructFrom("b_new", Short("b", S0), heap, S0)
    /\ UNCHANGED vec

\* fault: a builder from_vec that lets from_vec place a control block
MAByteStringBuilder_from_vec_allowcb ==
    /\ vec.live
    /\ vec.h = 0
    /\ vec' = NoVec
    /\ UNCHANGED fuel
    /\ IF vec.len <= SHORTLEN
       THEN Construct("b_from_vec", Short("b", VecBytes),
                      IF vec.ptr = NULL THEN heap ELSE MemFree(heap, vec.ptr), VecBytes)
       ELSE LET v == RegionOf(vec.ptr)
                r == InnerLong_from_vec([heap EXCEPT ![v].st = "payload"], "b", v, TRUE, 0)
            IN  Construct("b_from_vec", r.long, r.m, VecBytes)

MAByteStringBuilder_from_vec ==
    /\ vec.live
    /\ vec.h = 0
    /\ vec' = NoVec
    /\ UNCHANGED fuel
    /\ IF vec.len <= SHORTLEN
       THEN Construct("b_from_vec", Short("b", VecBytes),
                      IF vec.ptr = NULL THEN heap ELSE MemFree(heap, vec.ptr), VecBytes)
       ELSE LET v == RegionOf(vec.ptr)
                r == InnerLong_from_vec([heap EXCEPT ![v].st = "payload"], "b", v, FALSE, 0)
            IN  Construct("b_from_vec", r.long, r.m, VecBytes)

MAByteStringBuilder_get_mode(m, h) ==
    IF IsInline(h) THEN "short"
    ELSE IF h.cap = 0 THEN "static (invalid)"
    ELSE IF h.cbptr = NULL THEN "unique"
    ELSE IF CbLoad(m, h.cbptr) % 2 = 0 THEN "cbowned (inavlid)"
    ELSE "cbinline (invalid)"

MAByteStringBuilder_capacity(h) == IF IsInline(h) THEN SHORTLEN ELSE h.cap

MAByteStringBuilder_reserve(m, h, mis, mincap) ==
    IF IsInline(h)
    THEN IF mincap > SHORTLEN THEN Promote(m, h, mis, mincap)
         ELSE Outcome(h, m, NoHandle, 0, {})
    ELSE InnerLong_reserve(Outcome(h, m, NoHandle, 0, {}), mis, mincap, FALSE)

MAByteStringBuilder_reserve_extra_internal(m, h, mis, extracap) ==
    MAByteStringBuilder_reserve(m, h, mis, LenOf(h) + extracap)

MAByteStringBuilder_add_assign(m, h, mis, other) ==
    LET o == MAByteStringBuilder_reserve_extra_internal(m, h, mis, Len(other))
    IN  SetLen(Store(o, LenOf(h), other), LenOf(h) + Len(other))

\* a builder's deref_mut, and one byte written through the slice it returns
MAByteStringBuilder_deref_mut(m, h, i, v) ==
    LET o == Outcome(h, m, NoHandle, 0, {})
    IN  IF i < LenOf(h) THEN Store(o, i, << v >>) ELSE o

BuilderReserve(h, mincap) ==
    /\ Usable(h, "b")
    /\ Apply("b_reserve", h,
             [MAByteStringBuilder_reserve(heap, hs[h], vecmis, mincap) EXCEPT !.req = mincap], TRUE)
    /\ UNCHANGED vec

BuilderAddAssign(h, other) ==
    /\ Usable(h, "b")
    /\ LenOf(hs[h]) + Len(other) <= MaxReq
    /\ Apply("b_add_assign", h, MAByteStringBuilder_add_assign(heap, hs[h], vecmis, other), FALSE)
    /\ UNCHANGED vec

BuilderDerefMut(h, i, v) ==
    /\ Usable(h, "b")
    /\ Apply("b_deref_mut", h, MAByteStringBuilder_deref_mut(heap, hs[h], i, v), FALSE)
    /\ UNCHANGED vec

\* fault: a builder's clone that copies the handle, not the bytes
MAByteStringBuilder_clone_handle(m, h, r, mis) == [long |-> h, m |-> m]

\* Clone for MAByteStringBuilder: from_slice of the builder's bytes
MAByteStringBuilder_clone(m, h, r, mis) ==
    IF LenOf(h) <= SHORTLEN THEN [long |-> Short("b", Deref(m, h)), m |-> m]
    ELSE InnerLong_from_slice(m, "b", r, mis, Deref(m, h), FALSE, 0)

BuilderClone(src) ==
    /\ hs[src].k # "none"
    /\ hs[src].ty = "b"
    /\ FreeSlots # {}
    /\ FreeRegions(heap) # {}
    /\ LET dst == SetMin(FreeSlots)
           c == MAByteStringBuilder_clone(heap, hs[src], NewRegion(heap), vecmis)
       IN  /\ hs' = [hs EXCEPT ![dst] = c.long]
           /\ heap' = c.m
           /\ snap' = [snap EXCEPT ![dst] = Deref(c.m, c.long)]
           /\ orig' = [orig EXCEPT ![dst] = NoOrig]
           /\ last' = Step("b_clone", dst, src, heap, c.m, 0)
    /\ run' = NoRun
    /\ UNCHANGED <<th, vec, err, fuel, vecmis>>

\* ------------------------------------------------------------ join
ITERBLOCKLEN == 8

\* one outcome after another
Chain(o, n) == [n EXCEPT !.err = @ \cup o.err, !.atomics = @ + o.atomics]

\* the first loop over a block: resultlen grows by every item's length, and by
\* the joiner's for every item but the very first
RECURSIVE join_count(_, _, _, _)
join_count(joiner, block, resultlen, firstc) ==
    IF block = << >> THEN [resultlen |-> resultlen, firstc |-> firstc]
    ELSE join_count(joiner, Tail(block),
                    resultlen + (IF firstc THEN 0 ELSE Len(joiner)) + Len(Head(block)[1]),
                    FALSE)

\* F of the value of v, with v computed once
Once(v, F(_)) == CHOOSE x \in {F(s) : s \in {v}} : TRUE

\* one turn of the second loop over a block: result += joiner unless the item
\* is the very first, then result += item
join_item(joiner, item, o, mis, firstb) ==
    LET o1 == IF firstb THEN o
              ELSE Chain(o, MAByteStringBuilder_add_assign(o.m, o.h, mis, joiner))
    IN  Chain(o1, MAByteStringBuilder_add_assign(o1.m, o1.h, mis, item))

\* the second loop over a block
RECURSIVE join_append(_, _, _, _, _)
join_append(joiner, block, o, mis, firstb) ==
    IF block = << >> THEN [o |-> o, firstb |-> firstb]
    ELSE Once(join_item(joiner, Head(block)[1], o, mis, firstb),
              LAMBDA o2 : join_append(joiner, Tail(block), o2, mis, FALSE))

\* fault: the loop of join_internal with firstb set anew for every block
RECURSIVE join_loop_blockwise(_, _, _)
join_loop_blockwise(joiner, mis, st) ==
    LET nxt == IF st.iter = << >> THEN << >> ELSE << Head(st.iter) >>
        rest == IF st.iter = << >> THEN << >> ELSE Tail(st.iter)
        block == SubSeq(st.block, 1, st.i) \o << nxt >> \o SubSeq(st.block, st.i + 2, ITERBLOCKLEN)
    IN  IF nxt # << >> /\ st.i < ITERBLOCKLEN - 1
        THEN Once([st EXCEPT !.iter = rest, !.block = block, !.i = st.i + 1],
                  LAMBDA s : join_loop_blockwise(joiner, mis, s))
        ELSE LET blocklen == IF nxt # << >> THEN st.i + 1 ELSE st.i
                 end == nxt = << >>
                 items == SubSeq(block, 1, blocklen)
                 c == join_count(joiner, items, st.resultlen, st.firstc)
                 r == Chain(st.o, MAByteStringBuilder_reserve(st.o.m, st.o.h, mis, c.resultlen))
                 a == join_append(joiner, items, r, mis, TRUE)
             IN  IF end THEN a.o
                 ELSE Once([iter |-> rest, block |-> block, i |-> 0, o |-> a.o,
                            resultlen |-> c.resultlen, firstc |-> c.firstc,
                            firstb |-> a.firstb],
                           LAMBDA s : join_loop_blockwise(joiner, mis, s))

\* the loop of join_internal: the next item is put into the block (Some(x)
\* is << x >>, None is << >>); when the block is full or the iterator is at
\* its end, the block's items are counted, the capacity reserved, and the
\* items appended
RECURSIVE join_loop(_, _, _)
join_loop(joiner, mis, st) ==
    LET nxt == IF st.iter = << >> THEN << >> ELSE << Head(st.iter) >>
        rest == IF st.iter = << >> THEN << >> ELSE Tail(st.iter)
        block == SubSeq(st.block, 1, st.i) \o << nxt >> \o SubSeq(st.block, st.i + 2, ITERBLOCKLEN)
    IN  IF nxt # << >> /\ st.i < ITERBLOCKLEN - 1
        THEN Once([st EXCEPT !.iter = rest, !.block = block, !.i = st.i + 1],
                  LAMBDA s : join_loop(joiner, mis, s))
        ELSE LET blocklen == IF nxt # << >> THEN st.i + 1 ELSE st.i
                 end == nxt = << >>
                 items == SubSeq(block, 1, blocklen)
                 c == join_count(joiner, items, st.resultlen, st.firstc)
                 r == Chain(st.o, MAByteStringBuilder_reserve(st.o.m, st.o.h, mis, c.resultlen))
                 a == join_append(joiner, items, r, mis, st.firstb)
             IN  IF end THEN a.o
                 ELSE Once([iter |-> rest, block |-> block, i |-> 0, o |-> a.o,
                            resultlen |-> c.resultlen, firstc |-> c.firstc,
                            firstb |-> a.firstb],
                           LAMBDA s : join_loop(joiner, mis, s))

\* what join_internal starts from: an empty block and a builder of Default
JoinStart(m, iter) ==
    [iter |-> iter, block |-> [k \in 1..ITERBLOCKLEN |-> << >>], i |-> 0,
     o |-> Outcome(Short("b", S0), m, NoHandle, 0, {}),
     resultlen |-> 0, firstc |-> TRUE, firstb |-> TRUE]

\* fault: join_internal that takes every block for the first
join_internal_blockwise(m, joiner, iter, mis) ==
    join_loop_blockwise(joiner, mis, JoinStart(m, iter))

\* join_internal::<MAByteStringBuilder, T, I>(joiner, iter)
join_internal(m, joiner, iter, mis) == join_loop(joiner, mis, JoinStart(m, iter))

\* MAByteStringBuilder::join: self is the separator
Join(sep, iter) ==
    /\ hs[sep].k # "none"
    /\ hs[sep].ty = "b"
    /\ FreeSlots # {}
    /\ Cardinality(FreeRegions(heap)) >= 2
    /\ fuel.mut > 0
    /\ fuel' = [fuel EXCEPT !.mut = @ - 1]
    /\ \E o \in {join_internal(heap, Deref(heap, hs[sep]), iter, vecmis)} :
       LET dst == SetMin(FreeSlots)
       IN  /\ hs' = [hs EXCEPT ![dst] = o.h]
           /\ heap' = o.m
           /\ err' = err \cup o.err
           /\ snap' = [snap EXCEPT ![dst] = Deref(o.m, o.h)]
           /\ orig' = [orig EXCEPT ![dst] = [ok |-> TRUE, s |-> iter, by |-> "join",
                                             fresh |-> TRUE]]
           /\ last' = Step("join", dst, sep, heap, o.m, 0)
    /\ run' = NoRun
    /\ UNCHANGED <<th, vec, vecmis>>

\* ------------------------------------------------------------ Debug
\* The formatter is the bytes written to it so far; write_str to a String
\* gives no error. A str is its bytes, each an ASCII code.
write_str(f, s) == f \o s

\* the test for a byte that is not written directly
NeedsEscape(c) == c < 32 \/ c > 126 \/ c = 92 \/ c = 34

\* a nibble as the digit bytestring.rs makes of it: += b'0', or -= 10 and
\* += b'a', in u8
nibble(n) == IF n < 10 THEN (n + 48) % 256 ELSE (n - 10 + 97) % 256
\* and as lib.rs makes of it: += b'9'
lib_nibble(n) == IF n < 10 THEN (n + 57) % 256 ELSE (n - 10 + 97) % 256

\* the escape bytestring.rs writes for c: "\\\\", "\\\"" or escaped, which is
\* b"\\xxx" with the two digits at [2] and [3]
escape(c) ==
    IF c = 92 THEN << 92, 92 >>
    ELSE IF c = 34 THEN << 92, 34 >>
    ELSE LET escaped == << 92, 120, 120, 120 >>
             uppernibble == c \div 16
             lowernibble == c % 16
         IN  [escaped EXCEPT ![3] = nibble(uppernibble), ![4] = nibble(lowernibble)]

\* the escape lib.rs writes for c
lib_escape(c) ==
    IF c = 92 THEN << 92, 92 >>
    ELSE IF c = 34 THEN << 92, 34 >>
    ELSE LET escaped == << 92, 120, 120, 120 >>
             uppernibble == c \div 16
             lowernibble == c % 16
         IN  [escaped EXCEPT ![3] = lib_nibble(uppernibble), ![4] = lib_nibble(lowernibble)]

\* one turn of the while loop of bytes_debug in bytestring.rs
bytes_debug_step(s, st) ==
    LET c == s[st.p + 1]
        f1 == IF st.groupstart < st.p
              THEN write_str(st.f, SubSeq(s, st.groupstart + 1, st.p)) ELSE st.f
    IN  IF NeedsEscape(c)
        THEN [p |-> st.p + 1, groupstart |-> st.p + 1, f |-> write_str(f1, escape(c))]
        ELSE [st EXCEPT !.p = @ + 1]

\* one turn of the while loop of bytes_debug in lib.rs: groupstart = p + 1 is
\* inside the branch of the hexadecimal escape
lib_bytes_debug_step(s, st) ==
    LET c == s[st.p + 1]
        f1 == IF st.groupstart < st.p
              THEN write_str(st.f, SubSeq(s, st.groupstart + 1, st.p)) ELSE st.f
    IN  IF NeedsEscape(c)
        THEN [p |-> st.p + 1,
              groupstart |-> IF c = 92 \/ c = 34 THEN st.groupstart ELSE st.p + 1,
              f |-> write_str(f1, lib_escape(c))]
        ELSE [st EXCEPT !.p = @ + 1]

\* while p < len, in bytestring.rs
RECURSIVE bytes_debug_loop(_, _)
bytes_debug_loop(s, st) ==
    IF st.p < Len(s)
    THEN Once(bytes_debug_step(s, st), LAMBDA n : bytes_debug_loop(s, n))
    ELSE st

\* while p < len, in lib.rs
RECURSIVE lib_bytes_debug_loop(_, _)
lib_bytes_debug_loop(s, st) ==
    IF st.p < Len(s)
    THEN Once(lib_bytes_debug_step(s, st), LAMBDA n : lib_bytes_debug_loop(s, n))
    ELSE st

\* before the loop: b and the quote are written
DebugStart == [p |-> 0, groupstart |-> 0, f |-> write_str(<< >>, << 98, 34 >>)]
\* after the loop: the group that is left is written, and the quote
DebugEnd(s, st) ==
    write_str(IF st.groupstart < Len(s)
              THEN write_str(st.f, SubSeq(s, st.groupstart + 1, Len(s)))
              ELSE st.f,
              << 34 >>)

\* bytes_debug of bytestring.rs
bytes_debug(s) == Once(bytes_debug_loop(s, DebugStart), LAMBDA st : DebugEnd(s, st))
\* bytes_debug of lib.rs
lib_bytes_debug(s) == Once(lib_bytes_debug_loop(s, DebugStart), LAMBDA st : DebugEnd(s, st))

\* format!("{:?}", h): the handle and memory are read only
DebugWith(op, h, out) ==
    /\ hs[h].k # "none"
    /\ h \notin Borrowed
    /\ fuel.mut > 0
    /\ fuel' = [fuel EXCEPT !.mut = @ - 1]
    /\ last' = [Step(op, h, 0, heap, heap, 0) EXCEPT !.out = out]
    /\ run' = NoRun
    /\ UNCHANGED <<hs, heap, th, snap, orig, err, vecmis>>

\* fmt::Debug for MAByteString and MAByteStringBuilder
Debug(h) ==
    /\ DebugWith("debug", h, bytes_debug(Deref(heap, hs[h])))
    /\ UNCHANGED vec
\* the same in lib.rs
LibDebug(h) ==
    /\ DebugWith("lib_debug", h, lib_bytes_debug(Deref(heap, hs[h])))
    /\ UNCHANGED vec

\* fault: into_vec that copies whatever the buffer is
into_vec_copy(m, h, mis) ==
    LET s == Deref(m, h)
        r == NewRegion(m)
    IN  [Outcome(NoHandle, [VecNew(m, r, mis, Len(s), s) EXCEPT ![r].st = "vec"],
                 IF IsInline(h) THEN NoHandle ELSE h, 0, {}) EXCEPT
             !.h = [k |-> "none", ptr |-> r * REGION + mis, len |-> Len(s), cap |-> Len(s)]]

\* into_vec: the Vec takes the allocation over, or is a new one of a Short
\* buffer; vec is what Vec::from_raw_parts or to_vec is given
into_vec(m, h, mis) ==
    IF IsInline(h)
    THEN IF ShortLen(h) = 0
         THEN [Outcome(NoHandle, m, NoHandle, 0, {}) EXCEPT
                   !.h = [k |-> "none", ptr |-> NULL, len |-> 0, cap |-> 0]]
         ELSE [Outcome(NoHandle,
                       [VecNew(m, NewRegion(m), mis, ShortLen(h), SubSeq(h.data, 1, ShortLen(h)))
                           EXCEPT ![NewRegion(m)].st = "vec"],
                       NoHandle, 0, {}) EXCEPT
                   !.h = [k |-> "none", ptr |-> NewRegion(m) * REGION + mis,
                          len |-> ShortLen(h), cap |-> ShortLen(h)]]
    ELSE LET o == InnerLong_make_unique(m, h, mis, 0, TRUE)
         IN  [o EXCEPT !.h = [k |-> "none", ptr |-> o.h.ptr, len |-> h.len, cap |-> o.h.cap],
                       !.m = IF IsPayloadPtr(o.m, o.h.ptr)
                             THEN [@ EXCEPT ![RegionOf(o.h.ptr)].st = "vec"] ELSE @,
                       !.err = @ \cup (IF IsPayloadPtr(o.m, o.h.ptr) THEN {} ELSE {"use_after_free"})]

IntoVec(h) ==
    /\ Usable(h, "s")
    /\ ~vec.live
    /\ LET o == into_vec(heap, hs[h], vecmis)
       IN  /\ Apply("into_vec", h, [o EXCEPT !.h = NoHandle], FALSE)
           /\ vec' = [live |-> TRUE, ptr |-> o.h.ptr, len |-> o.h.len, cap |-> o.h.cap,
                      from |-> orig[h], h |-> h]

\* the owner of the Vec drops it
DropVec ==
    /\ vec.live
    /\ vec' = NoVec
    /\ heap' = IF vec.ptr = NULL THEN heap ELSE MemFree(heap, vec.ptr)
    /\ err' = err \cup (IF vec.ptr = NULL \/ heap[RegionOf(vec.ptr)].st = "vec"
                        THEN {} ELSE {"bad_free"})
    /\ last' = Step("drop_vec", 0, 0, heap, heap', 0)
    /\ run' = NoRun
    /\ UNCHANGED <<hs, th, snap, orig, fuel, vecmis>>

\* ------------------------------------------------------------ drop
\* fault: a drop that takes a count of 2 for the last reference
DropDecBody_early(m, l) ==
    IF l.cap = 0 THEN [m |-> m, pc |-> "idle", oldcb |-> 0, atomics |-> 0, err |-> {},
                      ord |-> << >>]
    ELSE IF l.cbptr = NULL
    THEN [m |-> MemFree(m, l.ptr), pc |-> "idle", oldcb |-> 0, atomics |-> 0,
          ord |-> << "free.ptr" >>, err |-> {}]
    ELSE [m |-> CbStore(m, l.cbptr, CbLoad(m, l.cbptr) - 2),
          ord |-> << "fetch_sub.Release" >>,
          pc |-> IF CbLoad(m, l.cbptr) > 5 THEN "idle" ELSE "free",
          oldcb |-> CbLoad(m, l.cbptr), atomics |-> 1, err |-> {}]

\* fault: a drop that frees only when it finds no reference counted
DropDecBody_late(m, l) ==
    IF l.cap = 0 THEN [m |-> m, pc |-> "idle", oldcb |-> 0, atomics |-> 0, err |-> {},
                      ord |-> << >>]
    ELSE IF l.cbptr = NULL
    THEN [m |-> MemFree(m, l.ptr), pc |-> "idle", oldcb |-> 0, atomics |-> 0,
          ord |-> << "free.ptr" >>,
          err |-> IF IsPayloadPtr(m, l.ptr) THEN {} ELSE {"bad_free"}]
    ELSE [m |-> CbStore(m, l.cbptr, CbLoad(m, l.cbptr) - 2),
          ord |-> << "fetch_sub.Release" >>,
          pc |-> IF CbLoad(m, l.cbptr) > 1 THEN "idle" ELSE "free",
          oldcb |-> CbLoad(m, l.cbptr), atomics |-> 1,
          err |-> IF CbValid(m, l.cbptr) THEN {} ELSE {"use_after_free"}]

\* Drop for InnerLong up to and with the fetch_sub
DropDecBody(m, l) ==
    IF l.cap = 0 THEN [m |-> m, pc |-> "idle", oldcb |-> 0, atomics |-> 0, err |-> {},
                      ord |-> << >>]
    ELSE IF l.cbptr = NULL
    THEN [m |-> MemFree(m, l.ptr), pc |-> "idle", oldcb |-> 0, atomics |-> 0,
          ord |-> << "free.ptr" >>,
          err |-> IF IsPayloadPtr(m, l.ptr) THEN {} ELSE {"bad_free"}]
    ELSE [m |-> CbStore(m, l.cbptr, CbLoad(m, l.cbptr) - 2),
          ord |-> << "fetch_sub.Release" >>,
          pc |-> IF CbLoad(m, l.cbptr) > 3 THEN "idle" ELSE "free",
          oldcb |-> CbLoad(m, l.cbptr), atomics |-> 1,
          err |-> IF CbValid(m, l.cbptr) THEN {} ELSE {"use_after_free"}]

DropStep(t, op, h, l) ==
    LET d == DropDecBody(heap, l) IN
    /\ heap' = d.m
    /\ err' = err \cup d.err
    /\ th' = [th EXCEPT ![t] = IF d.pc = "idle" THEN Idle
                               ELSE [Idle EXCEPT !.pc = "free", !.long = l, !.oldcb = d.oldcb,
                                                 !.op = IF th[t].pc = "dec" THEN th[t].op ELSE op]]
    /\ last' = [Step(op, h, 0, heap, d.m, d.atomics) EXCEPT !.ord = d.ord]
    /\ run' = NoRun

\* Drop for MAByteString and for MAByteStringBuilder
Drop(h) ==
    /\ hs[h].k # "none"
    /\ h \notin Borrowed
    /\ IdleThreads # {}
    /\ hs' = [hs EXCEPT ![h] = NoHandle]
    /\ snap' = [snap EXCEPT ![h] = << >>]
    /\ orig' = [orig EXCEPT ![h] = NoOrig]
    /\ IF IsInline(hs[h])
       THEN /\ last' = Step("drop", h, 0, heap, heap, 0)
            /\ run' = NoRun
            /\ UNCHANGED <<heap, err, th>>
       ELSE IF hs[h].ty = "b"
       THEN /\ heap' = MemFree(heap, hs[h].ptr)
            /\ err' = err \cup (IF IsPayloadPtr(heap, hs[h].ptr) THEN {} ELSE {"bad_free"})
            /\ last' = [Step("drop", h, 0, heap, heap', 0) EXCEPT !.ord = << "free.ptr" >>]
            /\ run' = NoRun
            /\ UNCHANGED th
       ELSE DropStep(SetMin(IdleThreads), "drop", h, hs[h])
    /\ UNCHANGED <<vec, fuel, vecmis>>

\* the drop of the InnerLong that make_unique or clear replaced
DropDec(t) ==
    /\ th[t].pc = "dec"
    /\ DropStep(t, "drop_dec", 0, th[t].long)
    /\ UNCHANGED <<hs, vec, snap, orig, fuel, vecmis>>

\* fault: the payload is freed first, and the flag is then read from the
\* control block, not taken from what fetch_sub returned
DropFree_payload_first(t) ==
    /\ th[t].pc = "free"
    /\ LET l == th[t].long
           m1 == MemFree(heap, l.ptr)
           box == CbLoad(m1, l.cbptr) % 2 = 0
       IN  /\ heap' = IF box THEN MemFree(m1, l.cbptr) ELSE m1
           /\ err' = err \cup (IF box /\ ~IsBoxPtr(m1, l.cbptr) THEN {"bad_free"} ELSE {})
                         \cup (IF IsPayloadPtr(heap, l.ptr) THEN {} ELSE {"bad_free"})
           /\ last' = [Step("drop_free", 0, 0, heap, heap', 0) EXCEPT
                          !.ord = << "fence.Acquire", "free.ptr" >>
                                     \o (IF box THEN << "free.cbptr" >> ELSE << >>)]
    /\ th' = [th EXCEPT ![t] = Idle]
    /\ run' = NoRun
    /\ UNCHANGED <<hs, vec, snap, orig, fuel, vecmis>>

\* after the fence: the control block, if it is a Box, and the payload are freed
DropFree(t) ==
    /\ th[t].pc = "free"
    /\ LET l == th[t].long
           box == th[t].oldcb % 2 = 0
           m1 == IF box THEN MemFree(heap, l.cbptr) ELSE heap
       IN  /\ heap' = MemFree(m1, l.ptr)
           /\ err' = err \cup (IF box /\ ~IsBoxPtr(heap, l.cbptr) THEN {"bad_free"} ELSE {})
                         \cup (IF IsPayloadPtr(m1, l.ptr) THEN {} ELSE {"bad_free"})
           /\ last' = [Step("drop_free", 0, 0, heap, heap', 0) EXCEPT
                          !.ord = << "fence.Acquire" >>
                                     \o (IF box THEN << "free.cbptr" >> ELSE << >>)
                                     \o << "free.ptr" >>]
    /\ th' = [th EXCEPT ![t] = Idle]
    /\ run' = NoRun
    /\ UNCHANGED <<hs, vec, snap, orig, fuel, vecmis>>

\* ------------------------------------------------------------ clone
\* how a step of a clone of handle src counts in the run of clones of src
RunStep(src, m, m2, done) ==
    IF run.h = src \/ (run.h = 0 /\ hs[src].cbptr = NULL /\ src \notin Borrowed)
    THEN [run EXCEPT !.h = src, !.allocs = @ + AllocCount(m, m2), !.frees = @ + FreeCount(m, m2),
                     !.first = IF run.clones = {} THEN @ + AllocCount(m, m2) ELSE @,
                     !.clones = @ \cup done]
    ELSE NoRun

\* fault: every clone allocates a control block
NeedsControlBlock_always(h) == h.k = "long"

\* if cbptr.is_null()
NeedsControlBlock(h) == h.cbptr = NULL

\* fault: a plain store in place of the compare-and-swap
compare_exchange_store(current, new) == [stored |-> TRUE, cbptr |-> new]

\* compare_exchange(null, new): the pointer the clone goes on with, and
\* whether new was stored
compare_exchange(current, new) ==
    [stored |-> current = NULL, cbptr |-> IF current = NULL THEN new ELSE current]

Clone(src) ==
    /\ hs[src].k # "none"
    /\ hs[src].ty = "s"
    /\ IdleThreads # {}
    /\ FreeSlots # {}
    /\ LET t == SetMin(IdleThreads)
           dst == SetMin(FreeSlots)
           h == hs[src]
           overlap == src \in Borrowed
       IN  IF IsInline(h) \/ h.cap = 0
           THEN /\ hs' = [hs EXCEPT ![dst] = IF IsInline(h) THEN h
                                              ELSE Long("s", h.len, 0, h.ptr, NULL)]
                /\ snap' = [snap EXCEPT ![dst] = Deref(heap, h)]
                /\ orig' = [orig EXCEPT ![dst] = orig[src]]
                /\ last' = Step("clone", dst, src, heap, heap, 0)
                /\ run' = NoRun
                /\ UNCHANGED <<heap, th, err>>
           ELSE IF NeedsControlBlock(h)
           THEN /\ FreeRegions(heap) # {}
                /\ heap' = BoxNew(heap, NewRegion(heap), 2)
                /\ th' = [th EXCEPT ![t] = [Idle EXCEPT !.pc = "cas", !.src = src, !.dst = dst,
                                               !.newcb = Base(heap', NewRegion(heap))]]
                /\ last' = Step("clone_load", dst, src, heap, heap', 1)
                /\ run' = IF run.h = src
                          THEN [RunStep(src, heap, heap', {}) EXCEPT !.par = @ \/ overlap]
                          ELSE IF overlap \/ h.cbptr # NULL THEN NoRun
                          ELSE RunStep(src, heap, heap', {})
                /\ UNCHANGED <<hs, snap, orig, err>>
           ELSE /\ th' = [th EXCEPT ![t] = [Idle EXCEPT !.pc = "inc", !.src = src, !.dst = dst,
                                               !.cbptr = h.cbptr]]
                /\ last' = Step("clone_load", dst, src, heap, heap, 1)
                /\ run' = IF run.h = src
                          THEN [run EXCEPT !.par = @ \/ overlap]
                          ELSE NoRun
                /\ UNCHANGED <<hs, heap, snap, orig, err>>
    /\ UNCHANGED <<vec, fuel, vecmis>>

\* self.long().cbptr.compare_exchange(null, newcbptr, ..)
CloneCas(t) ==
    /\ th[t].pc = "cas"
    /\ LET src == th[t].src
           r == compare_exchange(hs[src].cbptr, th[t].newcb)
       IN  /\ hs' = IF r.stored THEN [hs EXCEPT ![src].cbptr = th[t].newcb] ELSE hs
           /\ heap' = IF r.cbptr # th[t].newcb THEN MemFree(heap, th[t].newcb) ELSE heap
           /\ err' = err \cup (IF r.cbptr # th[t].newcb /\ ~IsBoxPtr(heap, th[t].newcb)
                               THEN {"bad_free"} ELSE {})
           /\ th' = [th EXCEPT ![t].pc = "inc", ![t].cbptr = r.cbptr]
           /\ last' = Step("clone_cas", th[t].dst, src, heap, heap', 1)
           /\ run' = RunStep(src, heap, heap', {})
    /\ UNCHANGED <<vec, snap, orig, fuel, vecmis>>

\* fault: no overflow guard
OverflowGuard_off(oldcb) == FALSE

\* fetch_add(2, ..) > usize::MAX / 2, of the value fetch_add returns
OverflowGuard(oldcb) == oldcb > USIZE_MAX_HALF

\* (*cbptr).fetch_add(2, Relaxed), the overflow guard, and the new handle
CloneInc(t) ==
    /\ th[t].pc = "inc"
    /\ LET src == th[t].src
           dst == th[t].dst
           old == CbLoad(heap, th[t].cbptr)
           panic == OverflowGuard(old)
           hnd == Long("s", hs[src].len, hs[src].cap, hs[src].ptr, th[t].cbptr)
       IN  /\ heap' = CbStore(heap, th[t].cbptr, (old + 2) % (USIZE_MAX + 1))
           /\ err' = err \cup (IF CbValid(heap, th[t].cbptr) THEN {} ELSE {"use_after_free"})
           /\ hs' = IF panic THEN hs ELSE [hs EXCEPT ![dst] = hnd]
           /\ snap' = IF panic THEN snap ELSE [snap EXCEPT ![dst] = Deref(heap', hnd)]
           /\ orig' = IF panic THEN orig ELSE [orig EXCEPT ![dst] = orig[src]]
           /\ last' = Step(IF panic THEN "clone_over" ELSE "clone", dst, src, heap, heap', 1)
           /\ run' = RunStep(src, heap, heap', IF panic THEN {} ELSE {dst})
           /\ th' = [th EXCEPT ![t] = IF panic THEN [@ EXCEPT !.pc = "undo", !.oldcb = old]
                                      ELSE Idle]
    /\ UNCHANGED <<vec, fuel, vecmis>>

\* (*cbptr).fetch_sub(2, Relaxed) and the panic
CloneUndo(t) ==
    /\ th[t].pc = "undo"
    /\ heap' = CbStore(heap, th[t].cbptr,
                       (CbLoad(heap, th[t].cbptr) + USIZE_MAX - 1) % (USIZE_MAX + 1))
    /\ err' = err \cup (IF CbValid(heap, th[t].cbptr) THEN {} ELSE {"use_after_free"})
    /\ last' = Step("clone_panic", th[t].dst, th[t].src, heap, heap', 1)
    /\ run' = RunStep(th[t].src, heap, heap', {})
    /\ th' = [th EXCEPT ![t] = Idle]
    /\ UNCHANGED <<hs, vec, snap, orig, fuel, vecmis>>

\* ------------------------------------------------------------ specification
Init ==
    /\ hs = [h \in Handles |-> NoHandle]
    /\ heap = [r \in Regions |-> IF r = StaticRegion THEN StaticCell ELSE FreeCell]
    /\ th = [t \in Threads |-> Idle]
    /\ vec = NoVec
    /\ snap = [h \in Handles |-> << >>]
    /\ orig = [h \in Handles |-> NoOrig]
    /\ run = NoRun
    /\ last = Step("init", 0, 0, heap, heap, 0)
    /\ err = {}
    /\ fuel = [ctor |-> MaxCtor, mut |-> MaxMut]
    /\ vecmis \in Misaligns

Next ==
    \/ MAByteString_new
    \/ \E s \in {S0, SMax, LMin} : MAByteString_from_slice(s)
    \/ \E s \in {S4, LVec}, cap \in {Len(LVec), Len(LVec) + SIZEOF_USIZE, Len(LVec) + 14} :
        MakeVec(s, cap)
    \/ MAByteString_from_vec
    \/ \E s \in {SMax, StaticLong} : MAByteString_from_static(s)
    \/ \E s \in {SMax, LMin} : MAByteStringBuilder_from_slice(s)
    \/ \E c \in {20} : MAByteStringBuilder_with_capacity(c)
    \/ \E h \in Handles :
        \/ Reserve(h, ReserveReq)
        \/ \E other \in {<< >>, << 7 >>} : AddAssign(h, other)
        \/ DerefMut(h, 0, 9)
        \/ Clear(h)
        \/ IntoVec(h)
        \/ FromMabs(h)
        \/ FromBuilder(h)
        \/ BuilderClear(h)
        \/ Drop(h)
        \/ Clone(h)
    \/ DropVec
    \/ \E t \in Threads :
        \/ CloneCas(t)
        \/ CloneInc(t)
        \/ DropDec(t)
        \/ DropFree(t)

Spec == Init /\ [][Next]_vars

\* Construction, clones, reserve, clear and into_vec only, with more calls.
InitRoundTrip ==
    /\ hs = [h \in Handles |-> NoHandle]
    /\ heap = [r \in Regions |-> IF r = StaticRegion THEN StaticCell ELSE FreeCell]
    /\ th = [t \in Threads |-> Idle]
    /\ vec = NoVec
    /\ snap = [h \in Handles |-> << >>]
    /\ orig = [h \in Handles |-> NoOrig]
    /\ run = NoRun
    /\ last = Step("init", 0, 0, heap, heap, 0)
    /\ err = {}
    /\ fuel = [ctor |-> MaxCtor, mut |-> MaxMutRoundTrip]
    /\ vecmis \in Misaligns

NextRoundTrip ==
    \/ \E s \in {S0, SMax, LMin} : MAByteString_from_slice(s)
    \/ \E s \in {S0, SMax, LMin} : MakeVec(s, Len(s))
    \/ MAByteString_from_vec
    \/ \E s \in {S0, SMax, StaticLong} : MAByteString_from_static(s)
    \/ \E h \in Handles :
        \/ Reserve(h, ReserveReq)
        \/ Clear(h)
        \/ IntoVec(h)
        \/ Clone(h)
    \/ \E t \in Threads :
        \/ CloneCas(t)
        \/ CloneInc(t)
        \/ DropDec(t)
        \/ DropFree(t)

SpecRoundTrip == InitRoundTrip /\ [][NextRoundTrip]_vars

\* The MAByteString of src/src/lib.rs: constructors, clone, its clear, drop.
NextLib ==
    \/ MAByteString_new
    \/ \E s \in {S4, SMax, LMin} : MAByteString_from_slice(s)
    \/ \E s \in {SMax, StaticLong} : MAByteString_from_static(s)
    \/ \E h \in Handles :
        \/ LibClear(h)
        \/ Drop(h)
        \/ Clone(h)
    \/ \E t \in Threads :
        \/ CloneCas(t)
        \/ CloneInc(t)
        \/ DropDec(t)
        \/ DropFree(t)

SpecLib == Init /\ [][NextLib]_vars

\* Handles made by from_static and whatever is done with them, with more calls.
InitStatic ==
    /\ hs = [h \in Handles |-> NoHandle]
    /\ heap = [r \in Regions |-> IF r = StaticRegion THEN StaticCell ELSE FreeCell]
    /\ th = [t \in Threads |-> Idle]
    /\ vec = NoVec
    /\ snap = [h \in Handles |-> << >>]
    /\ orig = [h \in Handles |-> NoOrig]
    /\ run = NoRun
    /\ last = Step("init", 0, 0, heap, heap, 0)
    /\ err = {}
    /\ fuel = [ctor |-> MaxCtor, mut |-> MaxMutStatic]
    /\ vecmis \in Misaligns

NextStatic ==
    \/ MAByteString_from_static(StaticLong)
    \/ \E h \in Handles :
        \/ Reserve(h, ReserveReq)
        \/ AddAssign(h, << 7 >>)
        \/ DerefMut(h, 0, 9)
        \/ Clear(h)
        \/ IntoVec(h)
        \/ FromMabs(h)
        \/ FromBuilder(h)
        \/ Drop(h)
        \/ Clone(h)
    \/ DropVec
    \/ \E t \in Threads :
        \/ CloneCas(t)
        \/ CloneInc(t)
        \/ DropDec(t)
        \/ DropFree(t)

SpecStatic == InitStatic /\ [][NextStatic]_vars

\* values a control block can have come to through clones that were
\* forgotten (mem::forget), each of which left its increment behind
LeakedValues == {USIZE_MAX_HALF - 4, USIZE_MAX_HALF - 2, USIZE_MAX_HALF}

\* A buffer made by from_slice whose clones were forgotten until its inline
\* control block came near usize::MAX / 2, and the clones and drops after that.
InitOverflow ==
    \E v \in LeakedValues :
        LET m0 == [r \in Regions |-> IF r = StaticRegion THEN StaticCell ELSE FreeCell]
            c == InnerLong_from_slice(m0, "s", NewRegion(m0), 0, LMin, TRUE, 0)
        IN  /\ hs = [h \in Handles |-> IF h = 1 THEN c.long ELSE NoHandle]
            /\ heap = CbStore(c.m, c.long.cbptr, v)
            /\ th = [t \in Threads |-> Idle]
            /\ vec = NoVec
            /\ snap = [h \in Handles |-> IF h = 1 THEN LMin ELSE << >>]
            /\ orig = [h \in Handles |-> IF h = 1
                                          THEN [ok |-> TRUE, s |-> LMin, by |-> "from_slice",
                                                fresh |-> FALSE]
                                          ELSE NoOrig]
            /\ run = NoRun
            /\ last = Step("init", 0, 0, heap, heap, 0)
            /\ err = {}
            /\ fuel = [ctor |-> 0, mut |-> 0]
            /\ vecmis = 0

NextOverflow ==
    \/ \E h \in Handles : Clone(h) \/ Drop(h)
    \/ \E t \in Threads : CloneInc(t) \/ CloneUndo(t)

SpecOverflow == InitOverflow /\ [][NextOverflow]_vars

\* Builders, however made, the MAByteStrings from_mabs takes them from, and
\* what a builder can be asked to do.
InitBuilder ==
    /\ hs = [h \in Handles |-> NoHandle]
    /\ heap = [r \in Regions |-> IF r = StaticRegion THEN StaticCell ELSE FreeCell]
    /\ th = [t \in Threads |-> Idle]
    /\ vec = NoVec
    /\ snap = [h \in Handles |-> << >>]
    /\ orig = [h \in Handles |-> NoOrig]
    /\ run = NoRun
    /\ last = Step("init", 0, 0, heap, heap, 0)
    /\ err = {}
    /\ fuel = [ctor |-> MaxCtor, mut |-> MaxMutBuilder]
    /\ vecmis \in Misaligns

NextBuilder ==
    \/ MAByteStringBuilder_new
    \/ MAByteStringBuilder_with_capacity(20)
    \/ \E s \in {SMax, LMin} : MAByteStringBuilder_from_slice(s)
    \/ \E cap \in {Len(LVec), Len(LVec) + 14} : MakeVec(LVec, cap)
    \/ MAByteStringBuilder_from_vec
    \/ MAByteString_from_vec
    \/ \E s \in {SMax, LMin} : MAByteString_from_slice(s)
    \/ MAByteString_from_static(StaticLong)
    \/ \E h \in Handles :
        \/ FromMabs(h)
        \/ BuilderReserve(h, ReserveReq)
        \/ BuilderAddAssign(h, << 7 >>)
        \/ BuilderDerefMut(h, 0, 9)
        \/ BuilderClear(h)
        \/ BuilderClone(h)
        \/ Drop(h)
        \/ Clone(h)
    \/ \E t \in Threads :
        \/ CloneCas(t)
        \/ CloneInc(t)
        \/ DropDec(t)
        \/ DropFree(t)

SpecBuilder == InitBuilder /\ [][NextBuilder]_vars

\* the capacities asked of reserve in SpecReserve: one that a buffer of
\* from_slice(LMin) has, one that it has only without its control block, and
\* one that it has not
ReserveRequests == {Len(LMin), Len(LMin) + 1, ReserveReq}

\* Long buffers of every mode, shared or not, and reserve and += on them.
InitReserve ==
    /\ hs = [h \in Handles |-> NoHandle]
    /\ heap = [r \in Regions |-> IF r = StaticRegion THEN StaticCell ELSE FreeCell]
    /\ th = [t \in Threads |-> Idle]
    /\ vec = NoVec
    /\ snap = [h \in Handles |-> << >>]
    /\ orig = [h \in Handles |-> NoOrig]
    /\ run = NoRun
    /\ last = Step("init", 0, 0, heap, heap, 0)
    /\ err = {}
    /\ fuel = [ctor |-> MaxCtor, mut |-> MaxMutReserve]
    /\ vecmis \in Misaligns

NextReserve ==
    \/ MAByteString_from_slice(LMin)
    \/ \E cap \in {Len(LVec), Len(LVec) + 14} : MakeVec(LVec, cap)
    \/ MAByteString_from_vec
    \/ \E h \in Handles :
        \/ \E n \in ReserveRequests : Reserve(h, n)
        \/ AddAssign(h, << 7 >>)
        \/ Drop(h)
        \/ Clone(h)
    \/ \E t \in Threads :
        \/ CloneCas(t)
        \/ CloneInc(t)
        \/ DropDec(t)
        \/ DropFree(t)

SpecReserve == InitReserve /\ [][NextReserve]_vars

\* the capacities asked of reserve in SpecGrow: what a Short buffer holds,
\* one byte more, one byte more than the allocation of a Long buffer of the
\* inputs has, and more than twice that allocation
GrowRequests == {SHORTLEN, SHORTLEN + 1, Len(LVec) + 1, ReserveReq + 1}

\* Short and Long buffers and builders, and reserve and += on them.
InitGrow ==
    /\ hs = [h \in Handles |-> NoHandle]
    /\ heap = [r \in Regions |-> IF r = StaticRegion THEN StaticCell ELSE FreeCell]
    /\ th = [t \in Threads |-> Idle]
    /\ vec = NoVec
    /\ snap = [h \in Handles |-> << >>]
    /\ orig = [h \in Handles |-> NoOrig]
    /\ run = NoRun
    /\ last = Step("init", 0, 0, heap, heap, 0)
    /\ err = {}
    /\ fuel = [ctor |-> MaxCtor, mut |-> MaxMutGrow]
    /\ vecmis \in Misaligns

NextGrow ==
    \/ \E s \in {S4, SMax, LMin} : MAByteString_from_slice(s)
    \/ \E s \in {S4, SMax, LMin} : MAByteStringBuilder_from_slice(s)
    \/ \E cap \in {Len(LVec), Len(LVec) + 14} : MakeVec(LVec, cap)
    \/ MAByteString_from_vec
    \/ MAByteStringBuilder_from_vec
    \/ \E h \in Handles :
        \/ \E n \in GrowRequests : Reserve(h, n)
        \/ \E n \in GrowRequests : BuilderReserve(h, n)
        \/ AddAssign(h, << 7 >>)
        \/ BuilderAddAssign(h, << 7 >>)
        \/ Drop(h)
        \/ Clone(h)
    \/ \E t \in Threads :
        \/ CloneCas(t)
        \/ CloneInc(t)
        \/ DropDec(t)
        \/ DropFree(t)

SpecGrow == InitGrow /\ [][NextGrow]_vars

\* the separators of SpecJoin: none, one of one byte and one of two bytes
JoinSep == Pattern(2, 43)
JoinSeps == {S0, Pattern(1, 42), JoinSep}
\* the items: single bytes, or by turns a byte, two bytes and none
JoinItem(kind, k) ==
    IF kind = "single" \/ k % 3 = 1 THEN << k >>
    ELSE IF k % 3 = 2 THEN << k, k + 100 >>
    ELSE << >>
\* how many items: none, one, two, a block less one, a block, a block and
\* one, and the most
JoinCounts == {0, 1, 2, ITERBLOCKLEN - 1, ITERBLOCKLEN, ITERBLOCKLEN + 1, MaxJoin}
JoinInputs ==
    {[k \in 1..n |-> JoinItem(kind, k)] : n \in JoinCounts, kind \in {"single", "mixed"}}

\* Builders that are separators, and join of what an iterator yields.
InitJoin ==
    /\ hs = [h \in Handles |-> NoHandle]
    /\ heap = [r \in Regions |-> IF r = StaticRegion THEN StaticCell ELSE FreeCell]
    /\ th = [t \in Threads |-> Idle]
    /\ vec = NoVec
    /\ snap = [h \in Handles |-> << >>]
    /\ orig = [h \in Handles |-> NoOrig]
    /\ run = NoRun
    /\ last = Step("init", 0, 0, heap, heap, 0)
    /\ err = {}
    /\ fuel = [ctor |-> MaxCtor, mut |-> MaxJoinCalls]
    /\ vecmis \in Misaligns

NextJoin ==
    \/ \E s \in JoinSeps : MAByteStringBuilder_from_slice(s)
    \/ \E h \in Handles :
        \/ \E iter \in JoinInputs : Join(h, iter)
        \/ Drop(h)

SpecJoin == InitJoin /\ [][NextJoin]_vars

\* the bytes formatted: one of each kind the formatter tells apart, and with
\* either kind of digit in either place
DebugBytes == {10, 25, 32, 34, 65, 92, 126, 127, 128, 255}
\* b"test \" \\ \x19\x7f\x80\xff" and the same followed by hello
TestDebug == << 116, 101, 115, 116, 32, 34, 32, 92, 32, 25, 127, 128, 255 >>
TestDebugHello == TestDebug \o << 104, 101, 108, 108, 111 >>
DebugInputs ==
    UNION {[1..n -> DebugBytes] : n \in 0..MaxDebugLen} \cup {TestDebug, TestDebugHello}

\* Buffers of the bytes to format, and their formatting by either copy of
\* bytes_debug.
InitDebug ==
    /\ hs = [h \in Handles |-> NoHandle]
    /\ heap = [r \in Regions |-> IF r = StaticRegion THEN StaticCell ELSE FreeCell]
    /\ th = [t \in Threads |-> Idle]
    /\ vec = NoVec
    /\ snap = [h \in Handles |-> << >>]
    /\ orig = [h \in Handles |-> NoOrig]
    /\ run = NoRun
    /\ last = Step("init", 0, 0, heap, heap, 0)
    /\ err = {}
    /\ fuel = [ctor |-> MaxCtor, mut |-> MaxDebugCalls]
    /\ vecmis \in Misaligns

NextDebug ==
    \/ \E s \in DebugInputs :
        \/ MAByteString_from_slice(s)
        \/ MAByteStringBuilder_from_slice(s)
    \/ \E h \in Handles :
        \/ Debug(h)
        \/ LibDebug(h)

SpecDebug == InitDebug /\ [][NextDebug]_vars

\* ------------------------------------------------------------ properties
LongShared(h) == ~IsInline(h) /\ h.cap # 0
\* the handles in other slots, and InnerLongs held by threads, that use payload p
OtherUsers(h, p) ==
    {h2 \in Handles \ {h} : hs[h2].k # "none" /\ LongShared(hs[h2]) /\ hs[h2].ptr = p}
ThreadUsers(p) ==
    {t \in Threads : th[t].long.k # "none" /\ th[t].long.ptr = p}
Quiescent == \A t \in Threads : th[t].pc = "idle"

\* C1: copy-on-write isolation. The bytes and the length seen through a handle
\* are those seen after the last operation on that handle itself: no write
\* through deref_mut, +=, reserve or clear on a clone, or on the handle it was
\* cloned from, changes them.
C1_Isolation ==
    \A h \in Handles : hs[h].k # "none" => Deref(heap, hs[h]) = snap[h]

\* C1 witness: a byte was written through one of two handles that shared a
\* payload; the writer now has a copy that differs, the other handle is as it was.
C1_Witness ==
    /\ last.op = "deref_mut"
    /\ last.allocs = 1
    /\ \E h2 \in Handles \ {last.h}, t \in Threads :
        /\ hs[h2].k # "none"
        /\ LongShared(hs[h2])
        /\ th[t].pc = "dec"
        /\ th[t].long.ptr = hs[h2].ptr
        /\ snap[h2] # snap[last.h]
        /\ Len(snap[h2]) = Len(snap[last.h])

\* C2: a payload that was written, or handed out mutably, by deref_mut, +=,
\* reserve, into_vec or from_mabs has no other user at that moment: its
\* control block is null or holds a count of 1, and no other handle or pending
\* drop points at it.
C2_WriterIsSole ==
    last.op \in {"deref_mut", "add_assign", "reserve", "into_vec", "from_mabs"} =>
        LET now == hs[last.h]
            p == IF last.op = "into_vec" THEN vec.ptr
                 ELSE IF now.k = "long" THEN now.ptr ELSE NULL
        IN  p # NULL =>
              /\ OtherUsers(last.h, p) = {}
              /\ ThreadUsers(p) = {}
              /\ now.k = "long" =>
                    /\ now.cap # 0
                    /\ now.cbptr = NULL \/ CbLoad(heap, now.cbptr) \div 2 = 1

\* C2 witness: += on a handle whose payload was shared: it made its own copy
\* and let the shared one go.
C2_Witness ==
    /\ last.op = "add_assign"
    /\ last.allocs = 1
    /\ \E t \in Threads :
        /\ th[t].pc = "dec"
        /\ OtherUsers(last.h, th[t].long.ptr) # {}

\* the control blocks there are: the live Boxes and whatever handles point at
ControlBlocks ==
    {Base(heap, r) : r \in {x \in Regions : heap[x].st = "box"}}
        \cup {hs[h].cbptr : h \in {x \in Handles : hs[x].k = "long" /\ hs[x].cbptr # NULL}}
PointingAt(cb) == {h \in Handles : hs[h].k = "long" /\ hs[h].ty = "s" /\ hs[h].cbptr = cb}

\* C3: when no clone or drop is in progress, every control block's count (its
\* value shifted right by one) is the number of live MAByteString handles
\* whose cbptr points at it.
C3_CountIsHandles ==
    Quiescent => \A cb \in ControlBlocks : CbLoad(heap, cb) \div 2 = Cardinality(PointingAt(cb))

\* C4: a drop frees only after its fetch_sub saw a value of 3 or less, what it
\* frees no live handle or other pending drop points at, every free is of a
\* live allocation of the right kind, and what a live handle points at is
\* allocated.
C4_FreedOnceByLastDrop ==
    /\ err = {}
    /\ \A t \in Threads : th[t].pc = "free" =>
        /\ th[t].oldcb <= 3
        /\ OtherUsers(0, th[t].long.ptr) = {}
        /\ ThreadUsers(th[t].long.ptr) = {t}
        /\ IsPayloadPtr(heap, th[t].long.ptr)
        /\ th[t].oldcb % 2 = 0 <=> IsBoxPtr(heap, th[t].long.cbptr)
    /\ \A h \in Handles : hs[h].k # "none" /\ LongShared(hs[h]) =>
        /\ IsPayloadPtr(heap, hs[h].ptr)
        /\ hs[h].cbptr # NULL => CbValid(heap, hs[h].cbptr)

\* C4 witness: the last of several handles to a payload with a separately
\* allocated control block was dropped, and both allocations are free again.
C4_Witness ==
    /\ last.op = "drop_free"
    /\ last.frees = 2
    /\ \A r \in Regions : heap[r].st \in {"free", "static"}
    /\ \A h \in Handles : hs[h].k = "none"

CloningThreads(src) == {t \in Threads : th[t].src = src}

\* C5: two threads cloning one unique Long handle. A speculative block is a
\* Box holding 2 that no handle points at until its compare-and-swap stores
\* it; a thread past the compare-and-swap goes on with the block the handle
\* holds; and when the clones have returned, one block more was allocated
\* than freed, the original and every clone point at it, and its count is
\* the number of those handles.
C5_InstallRace ==
    /\ \A t \in Threads : th[t].pc = "cas" =>
        /\ IsBoxPtr(heap, th[t].newcb)
        /\ CbLoad(heap, th[t].newcb) = 2
        /\ PointingAt(th[t].newcb) = {}
    /\ \A t \in Threads : th[t].pc = "inc" =>
        /\ th[t].cbptr = hs[th[t].src].cbptr
        /\ CbValid(heap, th[t].cbptr)
    /\ run.par /\ CloningThreads(run.h) = {} =>
        /\ run.allocs - run.frees = 1
        /\ IsBoxPtr(heap, hs[run.h].cbptr)
        /\ \A d \in run.clones : hs[d].cbptr = hs[run.h].cbptr
        /\ CbLoad(heap, hs[run.h].cbptr) \div 2 = 1 + Cardinality(run.clones)

\* C5 witness: both threads allocated a block, one lost the race and freed
\* its own, both clones have returned and the count is 3.
C5_Witness ==
    /\ run.par
    /\ Quiescent
    /\ Cardinality(run.clones) = 2
    /\ run.allocs = 2
    /\ run.frees = 1
    /\ CbLoad(heap, hs[run.h].cbptr) = 6

\* C6: successive clones of a handle that was a unique Long buffer allocate
\* at most once, in the first clone, free nothing, and every clone shares the
\* original's payload: same pointer, length and capacity.
C6_OneAllocation ==
    run.h # 0 /\ ~run.par =>
        /\ run.allocs <= 1
        /\ run.allocs = run.first
        /\ run.frees = 0
        /\ \A d \in run.clones :
            /\ hs[d].ptr = hs[run.h].ptr
            /\ hs[d].len = hs[run.h].len
            /\ hs[d].cap = hs[run.h].cap
            /\ IsBoxPtr(heap, hs[d].cbptr)

\* C6 witness: two successive clones of a unique Long buffer, one allocation.
C6_Witness ==
    /\ run.h # 0
    /\ ~run.par
    /\ Cardinality(run.clones) = 2
    /\ run.allocs = 1
    /\ Quiescent

\* C7: new, from_vec and from_static allocate nothing, and only from_vec of
\* bytes that fit inline frees (the Vec it was given); the clone of a Short or
\* static buffer allocates nothing, does no atomic operation, and has the
\* mode and the bytes of its source.
C7_NoAllocation ==
    /\ last.op \in {"new", "from_vec", "from_static"} =>
        /\ last.allocs = 0
        /\ last.frees <= (IF last.op = "from_vec" /\ IsInline(hs[last.h]) THEN 1 ELSE 0)
    /\ last.op = "clone" /\ (IsInline(hs[last.src]) \/ hs[last.src].cap = 0) =>
        /\ last.allocs = 0
        /\ last.frees = 0
        /\ last.atomics = 0
        /\ get_mode(heap, hs[last.h]) = get_mode(heap, hs[last.src])
        /\ Deref(heap, hs[last.h]) = Deref(heap, hs[last.src])

\* C7 witness: a static buffer was cloned.
C7_Witness ==
    /\ last.op = "clone"
    /\ get_mode(heap, hs[last.src]) = "static"
    /\ Deref(heap, hs[last.h]) = StaticLong

IsAligned(p) == p % ALIGNOF_ATOMIC = 0
FromSliceLong(h) == orig[h].by = "from_slice" /\ orig[h].fresh /\ hs[h].k = "long"

C9_RoundTrip ==
    vec.live /\ vec.from.ok =>
        /\ VecBytes = vec.from.s
        /\ vec.len = Len(vec.from.s)
        /\ vec.len <= vec.cap

\* C9 witness: a buffer of SHORTLEN + 1 bytes was cloned, reserve grew the
\* capacity of one handle, another handle was cleared, and into_vec was then
\* called on the first.
C9_Witness ==
    /\ last.op = "into_vec"
    /\ vec.from.ok
    /\ Len(vec.from.s) = SHORTLEN + 1
    /\ vec.cap > AlignUp(SHORTLEN + 1, ALIGNOF_ATOMIC) + SIZEOF_USIZE
    /\ \E h \in Handles : hs[h].k # "none" /\ Deref(heap, hs[h]) = << >>

ConstructorOps == {"from_slice", "from_vec", "from_static"}

\* C10 as stated: from_slice, from_vec, from_static and from_builder return
\* mode "short" whenever the bytes number SHORTLEN or fewer; from_static of
\* more returns mode "static", capacity 0, and the caller's pointer.
C10_ShortWheneverItFits ==
    /\ /\ last.op \in ConstructorOps \cup {"from_builder"}
       /\ Len(Deref(heap, hs[last.h])) <= SHORTLEN
       => get_mode(heap, hs[last.h]) = "short"
    /\ last.op = "from_static" /\ Len(Deref(heap, hs[last.h])) > SHORTLEN =>
        /\ get_mode(heap, hs[last.h]) = "static"
        /\ hs[last.h].cap = 0
        /\ hs[last.h].ptr = Base(heap, StaticRegion)

\* C10 amended: as stated for from_slice, from_vec and from_static;
\* from_builder returns mode "short" exactly when the builder was in Short
\* mode, and otherwise keeps the builder's allocation.
C10_ShortFromShortBuilder ==
    [][/\ /\ last'.op \in ConstructorOps
          /\ Len(Deref(heap', hs'[last'.h])) <= SHORTLEN
          => get_mode(heap', hs'[last'.h]) = "short"
       /\ last'.op = "from_static" /\ Len(Deref(heap', hs'[last'.h])) > SHORTLEN =>
           /\ get_mode(heap', hs'[last'.h]) = "static"
           /\ hs'[last'.h].cap = 0
           /\ hs'[last'.h].ptr = Base(heap', StaticRegion)
       /\ last'.op = "from_builder" =>
           /\ IsInline(hs[last'.h]) <=> get_mode(heap', hs'[last'.h]) = "short"
           /\ ~IsInline(hs[last'.h]) => hs'[last'.h].ptr = hs[last'.h].ptr
           /\ Deref(heap', hs'[last'.h]) = Deref(heap, hs[last'.h])]_vars

\* C10 witness: from_builder of a builder in Short mode returned a Short buffer.
C10_Witness ==
    /\ last.op = "from_builder"
    /\ get_mode(heap, hs[last.h]) = "short"
    /\ Deref(heap, hs[last.h]) = SMax

\* there is room after the first len bytes of the allocation at ptr, of
\* capacity cap, for a control block at an aligned address
RoomForControlBlock(ptr, len, cap) ==
    \E o \in len..(cap - SIZEOF_USIZE) : IsAligned(ptr + o)

\* C11: from_vec of a Vec of more than SHORTLEN bytes keeps the Vec's
\* allocation: same pointer, length and capacity, the bytes untouched, nothing
\* allocated or freed. The result is in mode "cbinline (unique)", its control
\* block aligned and within the spare capacity, exactly when the spare capacity
\* has room for an aligned control block; otherwise it is in mode "unique"
\* with a null cbptr.
C11_FromVecKeepsAllocation ==
    [][last'.op = "from_vec" /\ vec.len > SHORTLEN =>
        LET n == hs'[last'.h]
            r == RegionOf(vec.ptr)
        IN  /\ n.k = "long"
            /\ n.ptr = vec.ptr
            /\ n.len = vec.len
            /\ n.cap = vec.cap
            /\ last'.allocs = 0
            /\ last'.frees = 0
            /\ heap'[r].bytes = heap[r].bytes
            /\ Deref(heap', n) = VecBytes
            /\ IF RoomForControlBlock(vec.ptr, vec.len, vec.cap)
               THEN /\ get_mode(heap', n) = "cbinline (unique)"
                    /\ IsAligned(n.cbptr)
                    /\ n.cbptr >= n.ptr + n.len
                    /\ n.cbptr + SIZEOF_USIZE <= n.ptr + n.cap
               ELSE /\ get_mode(heap', n) = "unique"
                    /\ n.cbptr = NULL]_vars

\* C11 witness: from_vec of a Vec whose spare capacity is one control block:
\* placed at an aligned address the block fits after the bytes, and it is there.
C11_Witness ==
    /\ last.op = "from_vec"
    /\ hs[last.h].k = "long"
    /\ hs[last.h].cap = hs[last.h].len + SIZEOF_USIZE
    /\ get_mode(heap, hs[last.h]) = "cbinline (unique)"
    /\ hs[last.h].cbptr = hs[last.h].ptr + hs[last.h].len

\* a Long buffer that is static, or whose control block counts more than one
IsStatic(h) == ~IsInline(h) /\ h.cap = 0
IsShared(m, h) == LongShared(h) /\ h.cbptr # NULL /\ CbLoad(m, h.cbptr) \div 2 > 1
SoleModes == {"cbowned (unique)", "cbinline (unique)"}
\* the thread that takes the step from pc
Stepping(pc) == {t \in Threads : th[t].pc = pc /\ th'[t].pc # pc}

\* C12: reserve, += (reserve_extra_internal, also of no bytes) and deref_mut
\* on a Long buffer that is static or shared by more than one handle move the
\* handle to an allocation that was free before the call, even when the old
\* capacity would have done; the bytes that were there are there (but for the
\* one byte the caller of deref_mut wrote), the old payload and its control
\* block are as they were, and the handle's reference is let go: the drop of
\* the InnerLong that was replaced lowers the count by one, and when that
\* leaves one handle, that handle is the sole referent, with the pointer and
\* capacity it had, and nothing is freed.
C12_Detachment ==
    [][/\ LET o == hs[last'.h]
              n == hs'[last'.h]
              was == Deref(heap, o)
              is == Deref(heap', n)
          IN  /\ last'.op \in {"reserve", "add_assign", "deref_mut"}
              /\ IsStatic(o) \/ IsShared(heap, o)
              => /\ n.k = "long"
                 /\ n.ptr # o.ptr
                 /\ heap[RegionOf(n.ptr)].st = "free"
                 /\ IsPayloadPtr(heap', n.ptr)
                 /\ last'.allocs = 1
                 /\ last'.frees = 0
                 /\ n.len >= o.len
                 /\ last'.op # "add_assign" => n.len = o.len
                 /\ \A i \in 1..o.len : is[i] = was[i] \/ (last'.op = "deref_mut" /\ i = 1)
                 /\ heap'[RegionOf(o.ptr)] = heap[RegionOf(o.ptr)]
                 /\ IsShared(heap, o) =>
                       \E t \in Threads : /\ th[t].pc = "idle"
                                          /\ th'[t].pc = "dec"
                                          /\ th'[t].long = o
       /\ \A t \in Stepping("dec") :
             LET l == th[t].long
                 old == CbLoad(heap, l.cbptr)
             IN  l.cbptr # NULL =>
                   /\ CbLoad(heap', l.cbptr) = old - 2
                   /\ old \div 2 = 2 =>
                         /\ last'.frees = 0
                         /\ \A s \in PointingAt(l.cbptr) :
                               /\ hs'[s] = hs[s]
                               /\ hs[s].ptr = l.ptr
                               /\ hs[s].cap = l.cap
                               /\ get_mode(heap', hs'[s]) \in SoleModes]_vars

\* C12 witness: += of no bytes on one of two handles to a payload: the handle
\* has its own payload of the same bytes and the same capacity, its reference
\* has been let go, and the other handle is the sole referent of the old one.
C12_Witness ==
    /\ last.op = "drop_dec"
    /\ Quiescent
    /\ \E h, s \in Handles :
        /\ hs[h].k = "long"
        /\ hs[s].k = "long"
        /\ orig[h] = NoOrig
        /\ hs[h].ptr # hs[s].ptr
        /\ hs[h].cap = hs[s].cap
        /\ Deref(heap, hs[h]) = Deref(heap, hs[s])
        /\ get_mode(heap, hs[s]) \in SoleModes

\* C13: reserve(n), for every n up to MaxReq and on every handle there is,
\* whatever its mode, leaves a handle whose capacity() is at least n and whose
\* bytes and length are those it had; and the handle reserve was last called
\* on has the capacity asked for and, if only reserve was ever called on it,
\* the bytes it was constructed from.
C13_ReserveCapacity ==
    /\ \A h \in Handles : Usable(h, "s") =>
          \A n \in 0..MaxReq :
              LET o == MAByteString_reserve(heap, hs[h], vecmis, n)
              IN  /\ capacity(o.h) >= n
                  /\ LenOf(o.h) = LenOf(hs[h])
                  /\ Deref(o.m, o.h) = Deref(heap, hs[h])
                  /\ o.err = {}
    /\ last.op = "reserve" =>
          /\ capacity(hs[last.h]) >= ReserveReq
          /\ orig[last.h].ok => Deref(heap, hs[last.h]) = orig[last.h].s

\* C13 witness: reserve has made a Short buffer of SHORTLEN bytes Long.
C13_Witness ==
    /\ last.op = "reserve"
    /\ last.allocs = 1
    /\ hs[last.h].k = "long"
    /\ capacity(hs[last.h]) >= ReserveReq
    /\ Deref(heap, hs[last.h]) = SMax

\* slices to append
Appended == {<< >>, << 7 >>, Pattern(SHORTLEN, 100)}

\* C14: s += t, for every handle there is, whatever its mode, and each t of
\* Appended: the bytes of s are then its old bytes followed by t; a Short s
\* stays Short exactly when the old length and the length of t make SHORTLEN
\* or less, and is otherwise Long; a Long s stays Long; a Long result has a
\* capacity() of at least the new length and its control block, if it has
\* one, intact; and the bytes seen through every other handle are unchanged.
C14_Append ==
    \A h \in Handles : Usable(h, "s") =>
        \A t \in Appended :
            LET old == hs[h]
                o == add_assign(heap, old, vecmis, t)
                n == LenOf(old) + Len(t)
            IN  n <= MaxReq =>
                  /\ Deref(o.m, o.h) = Deref(heap, old) \o t
                  /\ LenOf(o.h) = n
                  /\ IsInline(o.h) <=> (IsInline(old) /\ n <= SHORTLEN)
                  /\ ~IsInline(o.h) =>
                        /\ capacity(o.h) >= n
                        /\ o.h.cbptr # NULL => CbValid(o.m, o.h.cbptr)
                  /\ o.err = {}
                  /\ \A h2 \in Handles \ {h} : hs[h2].k # "none" =>
                        Deref(o.m, hs[h2]) = Deref(heap, hs[h2])

\* C14 witness: a byte was appended to a Short buffer of SHORTLEN bytes, which
\* is now Long.
C14_Witness ==
    /\ last.op = "add_assign"
    /\ last.allocs = 1
    /\ ~IsInline(hs[last.h])
    /\ Deref(heap, hs[last.h]) = SMax \o << 7 >>
    /\ capacity(hs[last.h]) >= SHORTLEN + 1

\* a Long buffer with no control block, or with one that counts this handle alone
IsSole(m, h) == LongShared(h) /\ (h.cbptr = NULL \/ CbLoad(m, h.cbptr) \div 2 = 1)

\* C15: clear() on a Long buffer that is unique or the sole referent of its
\* control block sets the length to 0 and nothing else: the mode, the data
\* pointer, the control block pointer and value and capacity() are as before,
\* memory is untouched and no reference is let go.
C15_ClearKeepsBuffer ==
    [][last'.op = "clear" /\ IsSole(heap, hs[last'.h]) =>
        LET o == hs[last'.h]
            n == hs'[last'.h]
        IN  /\ n = [o EXCEPT !.len = 0]
            /\ Deref(heap', n) = << >>
            /\ get_mode(heap', n) = get_mode(heap, o)
            /\ capacity(n) = capacity(o)
            /\ heap' = heap
            /\ th' = th
            /\ last'.allocs = 0
            /\ last'.frees = 0]_vars

\* C15 witness: clear() on a buffer whose separately allocated control block
\* counts one handle, after its clone was dropped.
C15_Witness ==
    /\ last.op = "clear"
    /\ get_mode(heap, hs[last.h]) = "cbowned (unique)"
    /\ hs[last.h].len = 0
    /\ capacity(hs[last.h]) > SHORTLEN

\* what clear() on a handle that shares its payload does before it lets its
\* reference go: the handle is an empty Short buffer, memory is untouched, the
\* other handles read what they read, and the old InnerLong is to be dropped
ClearSharedStep ==
    last'.op = "clear" /\ IsShared(heap, hs[last'.h]) =>
        /\ hs'[last'.h] = Short("s", S0)
        /\ capacity(hs'[last'.h]) = SHORTLEN
        /\ heap' = heap
        /\ \A h2 \in Handles \ {last'.h} :
              /\ hs'[h2] = hs[h2]
              /\ hs[h2].k # "none" => Deref(heap', hs'[h2]) = Deref(heap, hs[h2])
        /\ \E t \in Threads : /\ th[t].pc = "idle"
                              /\ th'[t].pc = "dec"
                              /\ th'[t].long = hs[last'.h]

\* C16 as stated: clear() on a Long buffer whose control block counts more
\* than one handle makes the handle an empty Short buffer of capacity SHORTLEN,
\* lowers the count by exactly one, frees nothing, and leaves what every other
\* handle reads unchanged.
C16_ClearSharedFreesNothing ==
    [][/\ ClearSharedStep
       /\ \A t \in Stepping("dec") : th[t].op = "clear" =>
             /\ CbLoad(heap', th[t].long.cbptr) = CbLoad(heap, th[t].long.cbptr) - 2
             /\ th'[t].pc = "idle"
             /\ last'.frees = 0
             /\ hs' = hs]_vars

\* C16 amended: as stated, but that nothing is freed holds when another
\* handle, or another call that has yet to let its reference go, still holds
\* a reference at clear's decrement. When the other handles were dropped, or
\* moved to payloads of their own, between clear's reading of the count and
\* its decrement, the decrement sees a value of 3 or less, no handle and no
\* other pending drop points at the payload, and clear's drop goes on to free it.
C16_ClearSharedReleases ==
    [][/\ ClearSharedStep
       /\ \A t \in Stepping("dec") : th[t].op = "clear" =>
             LET l == th[t].long
                 old == CbLoad(heap, l.cbptr)
             IN  /\ CbLoad(heap', l.cbptr) = old - 2
                 /\ last'.frees = 0
                 /\ hs' = hs
                 /\ IF old > 3
                    THEN /\ th'[t].pc = "idle"
                         /\ PointingAt(l.cbptr) # {} \/ ThreadUsers(l.ptr) # {t}
                         /\ \A s \in PointingAt(l.cbptr) : Deref(heap', hs'[s]) = snap[s]
                    ELSE /\ th'[t].pc = "free"
                         /\ PointingAt(l.cbptr) = {}
                         /\ OtherUsers(0, l.ptr) = {}
                         /\ ThreadUsers(l.ptr) = {t}]_vars

\* C16 witness: clear() on one of two handles to a payload has run to its
\* end: the handle is an empty Short buffer, the other handle is the sole
\* referent and reads the bytes it was constructed from, nothing was freed.
C16_Witness ==
    /\ last.op = "drop_dec"
    /\ last.frees = 0
    /\ Quiescent
    /\ fuel.mut = MaxMut - 1
    /\ \E h, s \in Handles :
        /\ hs[h] = Short("s", S0)
        /\ orig[h] = NoOrig
        /\ get_mode(heap, hs[s]) \in SoleModes
        /\ orig[s].ok
        /\ Deref(heap, hs[s]) = orig[s].s

\* C17: clear() on a Short buffer and on a static buffer leaves the handle in
\* mode "short" with length 0, whatever it held; no field of an InnerLong is
\* read from a Short buffer as a pointer, no memory is written or freed, and
\* no drop is left to do.
C17_ClearStaysShort ==
    [][/\ last'.op = "clear"
       /\ IsInline(hs[last'.h]) \/ IsStatic(hs[last'.h])
       => /\ get_mode(heap', hs'[last'.h]) = "short"
          /\ LenOf(hs'[last'.h]) = 0
          /\ heap' = heap
          /\ th' = th
          /\ err' = err
          /\ last'.atomics = 0]_vars

\* C18: into_vec on a Long buffer that is unique or the sole referent of its
\* control block returns a Vec of the buffer's allocation: its pointer, its
\* length, the whole capacity of the allocation, nothing allocated, freed or
\* copied. On a Short, static or shared buffer the Vec holds the same bytes
\* in an allocation that was free before (an empty Short buffer gives the
\* empty Vec, which has none); the other handles, the payload they share and
\* static memory are as they were.
C18_IntoVec ==
    [][last'.op = "into_vec" =>
        LET o == hs[last'.h]
        IN  /\ vec'.live
            /\ vec'.len = LenOf(o)
            /\ VecBytes' = Deref(heap, o)
            /\ hs'[last'.h] = NoHandle
            /\ IF IsSole(heap, o)
               THEN /\ vec'.ptr = o.ptr
                    /\ vec'.cap = o.cap
                    /\ last'.allocs = 0
                    /\ last'.frees = 0
                    /\ heap'[RegionOf(o.ptr)].bytes = heap[RegionOf(o.ptr)].bytes
               ELSE /\ \/ vec'.ptr = NULL /\ vec'.len = 0 /\ last'.allocs = 0
                       \/ /\ vec'.ptr # NULL
                          /\ heap[RegionOf(vec'.ptr)].st = "free"
                          /\ last'.allocs = 1
                    /\ last'.frees = 0
                    /\ vec'.cap >= vec'.len
                    /\ \A r \in Regions : heap[r].st # "free" => heap'[r] = heap[r]
                    /\ \A h2 \in Handles \ {last'.h} :
                          /\ hs'[h2] = hs[h2]
                          /\ hs[h2].k # "none" => Deref(heap', hs'[h2]) = Deref(heap, hs[h2])]_vars

\* C18 witness: into_vec on a sole Long buffer with an inline control block:
\* the Vec has the buffer's bytes and a capacity that takes in the space the
\* control block had, and nothing was allocated.
C18_Witness ==
    /\ last.op = "into_vec"
    /\ last.allocs = 0
    /\ vec.live
    /\ VecBytes = LMin
    /\ vec.cap = AlignUp(Len(LMin), ALIGNOF_ATOMIC) + SIZEOF_USIZE
    /\ IsAligned(vec.ptr)

\* C19: whatever is done with handles made by from_static of more than
\* SHORTLEN bytes (clone, reserve, +=, deref_mut, clear, into_vec, from_mabs,
\* from_builder, drop), static memory holds the bytes it held and is not
\* freed, no write or free went anywhere but to a live heap allocation, no
\* Vec, builder or pending drop has the static pointer, and a record of
\* capacity 0 has a null cbptr, points at static memory and reads its bytes.
C19_StaticNeverOwned ==
    /\ heap[StaticRegion] = StaticCell
    /\ err = {}
    /\ \A h \in Handles : hs[h].k # "none" /\ IsStatic(hs[h]) =>
          /\ hs[h].cbptr = NULL
          /\ hs[h].ty = "s"
          /\ hs[h].ptr = Base(heap, StaticRegion)
          /\ Deref(heap, hs[h]) = StaticLong
    /\ \A h \in Handles : hs[h].k # "none" /\ LongShared(hs[h]) =>
          RegionOf(hs[h].ptr) # StaticRegion
    /\ \A t \in Threads : th[t].long.k # "none" =>
          th[t].long.cap # 0 /\ RegionOf(th[t].long.ptr) # StaticRegion
    /\ vec.live /\ vec.ptr # NULL => RegionOf(vec.ptr) # StaticRegion

\* C19 witness: two mutating calls later there is still a static handle, a
\* Vec that into_vec made from a clone of it, and a clone that is static no more.
C19_Witness ==
    /\ fuel.mut = 0
    /\ fuel.ctor = 0
    /\ vec.live
    /\ VecBytes = StaticLong
    /\ \E h \in Handles : hs[h].k # "none" /\ get_mode(heap, hs[h]) = "static"
    /\ \E h \in Handles : hs[h].k # "none" /\ get_mode(heap, hs[h]) # "static"

\* clones of a handle to cb that have made their increment and not yet taken it back
Undoing(cb) == {t \in Threads : th[t].pc = "undo" /\ th[t].cbptr = cb}
\* what of a control block's value is not accounted for by the handles that
\* point at it and the increments about to be taken back
Excess(cb) == CbLoad(heap, cb) - 2 * Cardinality(PointingAt(cb)) - 2 * Cardinality(Undoing(cb))

\* what holds of the clone that fails: there is no new handle, its increment
\* did not wrap and is taken back before the panic, so that the value is
\* again the one it found, but for what other clones and drops did to it
\* meanwhile: every step leaves the value what the handles and the clones
\* yet to take their increment back account for
OverflowUndone ==
    /\ \A t \in Stepping("inc") :
          /\ CbLoad(heap', th[t].cbptr) = CbLoad(heap, th[t].cbptr) + 2
          /\ th'[t].pc = "undo" =>
                /\ hs' = hs
                /\ hs[th[t].dst] = NoHandle
    /\ \A t \in Stepping("undo") :
          /\ last'.op = "clone_panic"
          /\ hs' = hs
          /\ hs[th[t].dst] = NoHandle
          /\ th'[t] = Idle
          /\ CbLoad(heap', th[t].cbptr) = CbLoad(heap, th[t].cbptr) - 2
    /\ \A cb \in ControlBlocks : Excess(cb)' = Excess(cb)

\* C20 as stated: a clone whose increment takes the control block's value
\* above half the range of a usize fails and leaves no handle and the value
\* it found.
C20_PanicWhenPushedAbove ==
    [][/\ OverflowUndone
       /\ \A t \in Stepping("inc") :
             CbLoad(heap, th[t].cbptr) + 2 > USIZE_MAX_HALF <=> th'[t].pc = "undo"]_vars

\* C20 amended: a clone fails when the value its increment found (what
\* fetch_add returned) was already above half the range of a usize; it then
\* leaves no handle and the value it found. The clone whose increment is the
\* first to take the value above half the range succeeds.
C20_PanicWhenFoundAbove ==
    [][/\ OverflowUndone
       /\ \A t \in Stepping("inc") :
             IF CbLoad(heap, th[t].cbptr) > USIZE_MAX_HALF
             THEN th'[t].pc = "undo"
             ELSE /\ th'[t].pc = "idle"
                  /\ hs'[th[t].dst].k = "long"
                  /\ hs'[th[t].dst].cbptr = th[t].cbptr]_vars

\* C20 witness: a clone has panicked: the slot it was to fill is empty and
\* the control block holds the value, above half the range, that it found.
C20_Witness ==
    /\ last.op = "clone_panic"
    /\ Quiescent
    /\ hs[last.h] = NoHandle
    /\ CbLoad(heap, hs[last.src].cbptr) > USIZE_MAX_HALF
    /\ CbLoad(heap, hs[last.src].cbptr) = 2 * Cardinality(PointingAt(hs[last.src].cbptr))
                                            + Excess(hs[last.src].cbptr)

Builders == {h \in Handles : hs[h].k # "none" /\ hs[h].ty = "b"}

\* C21: whatever is done with builders (new, with_capacity, from_slice,
\* from_vec, from_mabs of a source in any mode, reserve, +=, clear, clone,
\* deref_mut), every builder there is reports mode "short" or "unique": none
\* is Long with capacity 0, none has a control block pointer that is not
\* null, and what a Long builder points at is a live allocation of its own.
C21_BuilderModes ==
    \A b \in Builders :
        /\ MAByteStringBuilder_get_mode(heap, hs[b]) \in {"short", "unique"}
        /\ ~IsInline(hs[b]) =>
              /\ hs[b].cap # 0
              /\ hs[b].cbptr = NULL
              /\ IsPayloadPtr(heap, hs[b].ptr)
              /\ heap[RegionOf(hs[b].ptr)].cap = hs[b].cap
              /\ OtherUsers(b, hs[b].ptr) = {}

\* C21 witness: from_mabs took a buffer that shared its payload with another
\* handle, and a byte was then appended to the builder it returned.
C21_Witness ==
    /\ last.op = "b_add_assign"
    /\ fuel.mut = 0
    /\ MAByteStringBuilder_get_mode(heap, hs[last.h]) = "unique"
    /\ Deref(heap, hs[last.h]) = LMin \o << 7 >>
    /\ \E s \in Handles : hs[s].k # "none" /\ hs[s].ty = "s" /\ hs[s].cbptr # NULL

\* no control block came to be, went away or changed its value in the step
ControlBlocksUntouched ==
    \A r \in Regions :
        /\ heap'[r].st = "box" <=> heap[r].st = "box"
        /\ heap'[r].cboff = heap[r].cboff
        /\ heap'[r].cbv = heap[r].cbv

\* C22: the clone of a builder holds the builder's bytes in storage of its
\* own: a Short value, or an allocation that was free before the call. The
\* builder cloned is as it was, both report mode "short" or "unique", no
\* control block is allocated, written or changed and no atomic operation is
\* done; and no later call on a builder (reserve, +=, deref_mut, clear, clone,
\* drop) changes the bytes read through another builder.
C22_BuilderCloneCopies ==
    [][/\ last'.op = "b_clone" =>
            LET s == hs[last'.src]
                c == hs'[last'.h]
            IN  /\ hs[last'.h] = NoHandle
                /\ hs'[last'.src] = s
                /\ Deref(heap', c) = Deref(heap, s)
                /\ Deref(heap', s) = Deref(heap, s)
                /\ MAByteStringBuilder_get_mode(heap', s) \in {"short", "unique"}
                /\ MAByteStringBuilder_get_mode(heap', c) \in {"short", "unique"}
                /\ ~IsInline(c) =>
                      /\ heap[RegionOf(c.ptr)].st = "free"
                      /\ IsPayloadPtr(heap', c.ptr)
                      /\ IsInline(s) \/ c.ptr # s.ptr
                /\ last'.allocs = (IF IsInline(c) THEN 0 ELSE 1)
                /\ last'.frees = 0
                /\ last'.atomics = 0
                /\ ControlBlocksUntouched
       /\ last'.op \in {"b_reserve", "b_add_assign", "b_deref_mut", "b_clear", "b_clone", "drop"} =>
            \A b \in Builders \ {last'.h} :
                /\ hs'[b] = hs[b]
                /\ Deref(heap', hs'[b]) = Deref(heap, hs[b])]_vars

\* C22 witness: a Long builder was cloned and a byte then written through
\* one of the two; the other reads the bytes it was made from.
C22_Witness ==
    /\ last.op = "b_deref_mut"
    /\ \E b \in Builders \ {last.h} :
        /\ ~IsInline(hs[b])
        /\ ~IsInline(hs[last.h])
        /\ Deref(heap, hs[b]) = LMin
        /\ Deref(heap, hs[last.h]) = << 9 >> \o Tail(LMin)
        /\ orig[b].ok # orig[last.h].ok

\* C23: from_mabs of a Long buffer that is unique or the sole referent of its
\* control block gives a builder in mode "unique" on the buffer's allocation:
\* same pointer, length and capacity, the bytes not copied or touched, a null
\* cbptr, and the control block freed if it was a Box. Of a static or shared
\* buffer it gives a builder in mode "unique" on an allocation that was free
\* before, holding the same bytes; the old payload, its control block and
\* the other handles are as they were, and a shared buffer's reference is let
\* go by one decrement, after which every handle left reads what it read
\* (the payload is freed by that decrement only if it turns out to be the
\* last, the other handles having been dropped meanwhile).
C23_FromMabs ==
    [][/\ last'.op = "from_mabs" =>
            LET o == hs[last'.h]
                n == hs'[last'.h]
            IN  /\ n.ty = "b"
                /\ Deref(heap', n) = Deref(heap, o)
                /\ IsSole(heap, o) =>
                      /\ n = [o EXCEPT !.ty = "b", !.cbptr = NULL]
                      /\ MAByteStringBuilder_get_mode(heap', n) = "unique"
                      /\ last'.allocs = 0
                      /\ heap'[RegionOf(o.ptr)].bytes = heap[RegionOf(o.ptr)].bytes
                      /\ IF IsBoxPtr(heap, o.cbptr)
                         THEN last'.frees = 1 /\ heap'[RegionOf(o.cbptr)].st = "free"
                         ELSE last'.frees = 0
                      /\ th' = th
                /\ IsStatic(o) \/ IsShared(heap, o) =>
                      /\ MAByteStringBuilder_get_mode(heap', n) = "unique"
                      /\ n.ptr # o.ptr
                      /\ heap[RegionOf(n.ptr)].st = "free"
                      /\ IsPayloadPtr(heap', n.ptr)
                      /\ last'.allocs = 1
                      /\ last'.frees = 0
                      /\ \A r \in Regions : heap[r].st # "free" => heap'[r] = heap[r]
                      /\ \A h2 \in Handles \ {last'.h} :
                            /\ hs'[h2] = hs[h2]
                            /\ hs[h2].k # "none" => Deref(heap', hs'[h2]) = Deref(heap, hs[h2])
                      /\ IF IsStatic(o) THEN th' = th
                         ELSE \E t \in Threads : /\ th[t].pc = "idle"
                                                 /\ th'[t].pc = "dec"
                                                 /\ th'[t].long = o
       /\ \A t \in Stepping("dec") : th[t].op = "from_mabs" =>
             LET l == th[t].long
                 old == CbLoad(heap, l.cbptr)
             IN  /\ CbLoad(heap', l.cbptr) = old - 2
                 /\ last'.frees = 0
                 /\ hs' = hs
                 /\ heap'[RegionOf(l.ptr)].bytes = heap[RegionOf(l.ptr)].bytes
                 /\ \A s \in PointingAt(l.cbptr) : Deref(heap', hs'[s]) = snap[s]
                 /\ IF old > 3
                    THEN th'[t].pc = "idle"
                    ELSE /\ th'[t].pc = "free"
                         /\ PointingAt(l.cbptr) = {}
                         /\ OtherUsers(0, l.ptr) = {}
                         /\ ThreadUsers(l.ptr) = {t}]_vars

\* C23 witness: from_mabs of one of two handles to a payload has run to its
\* end: the builder has the bytes in an allocation of its own, and the other
\* handle is the sole referent of the payload and reads the same bytes.
C23_Witness ==
    /\ last.op = "drop_dec"
    /\ last.frees = 0
    /\ Quiescent
    /\ \E b \in Builders, s \in Handles :
        /\ hs[s].k = "long"
        /\ hs[s].ty = "s"
        /\ get_mode(heap, hs[s]) \in SoleModes
        /\ MAByteStringBuilder_get_mode(heap, hs[b]) = "unique"
        /\ hs[b].ptr # hs[s].ptr
        /\ Deref(heap, hs[b]) = LMin
        /\ Deref(heap, hs[s]) = LMin

\* what InnerLong::from_vec, allowed a control block, makes of the
\* allocation of a Long builder b
FromVecOfBuilder(m, b) ==
    LET r == RegionOf(b.ptr)
    IN  InnerLong_from_vec([m EXCEPT ![r].bytes = Deref(m, b)], "s", r, TRUE, 0)

\* C24: from_builder of a Long builder keeps the builder's allocation
\* (pointer, length, capacity, bytes; nothing allocated, freed or copied), and
\* the mode and capacity() of the result are those the from-owned-buffer path
\* (InnerLong::from_vec) gives for the same allocation.
C24_FromBuilderAsFromVec ==
    [][last'.op = "from_builder" /\ ~IsInline(hs[last'.h]) =>
        LET b == hs[last'.h]
            n == hs'[last'.h]
            v == FromVecOfBuilder(heap, b)
        IN  /\ n.ptr = b.ptr
            /\ n.len = b.len
            /\ n.cap = b.cap
            /\ last'.allocs = 0
            /\ last'.frees = 0
            /\ Deref(heap', n) = Deref(heap, b)
            /\ get_mode(heap', n) = get_mode(v.m, v.long)
            /\ capacity(n) = capacity(v.long)]_vars

MAByteStrings == {h \in Handles : hs[h].k # "none" /\ hs[h].ty = "s"}

\* C25: of two buffers that hold the same bytes (the bytes put into each by
\* the last operation on it), whatever their modes and capacities: they are
\* equal, what they write to a Hasher is the same, they compare Equal and
\* each compares with any third buffer as the other does. Two buffers that
\* hold different bytes are not equal, and compare as their bytes do.
C25_CompareByBytes ==
    \A a, b \in MAByteStrings :
        /\ cmp(heap, hs[a], hs[b]) = slice_cmp(snap[a], snap[b])
        /\ IF snap[a] = snap[b]
           THEN /\ eq(heap, hs[a], hs[b])
                /\ hash(heap, hs[a]) = hash(heap, hs[b])
                /\ cmp(heap, hs[a], hs[b]) = "Equal"
                /\ \A c \in MAByteStrings : cmp(heap, hs[a], hs[c]) = cmp(heap, hs[b], hs[c])
           ELSE /\ ~eq(heap, hs[a], hs[b])
                /\ cmp(heap, hs[a], hs[b]) # "Equal"

\* C25 witness: a static buffer and a buffer with an inline control block and
\* a capacity of its own hold the same bytes, are equal and hash alike.
C25_Witness ==
    \E a, b \in MAByteStrings :
        /\ get_mode(heap, hs[a]) = "static"
        /\ get_mode(heap, hs[b]) = "cbinline (unique)"
        /\ capacity(hs[a]) # capacity(hs[b])
        /\ snap[a] = StaticLong
        /\ eq(heap, hs[a], hs[b])
        /\ hash(heap, hs[a]) = hash(heap, hs[b])
        /\ cmp(heap, hs[a], hs[b]) = "Equal"

\* C26: capacity() of every MAByteString there is: SHORTLEN for a Short
\* buffer; 0 for a static one; the capacity of the allocation for a unique
\* buffer and for one with a separately allocated control block, shared or
\* not; for one with an inline control block the offset of the block from
\* the data pointer, which is at least the length and less than the capacity
\* of the allocation, and, in a buffer built by from_vec or from_slice, at
\* least that capacity less two machine words.
C26_Capacity ==
    \A h \in MAByteStrings :
        LET x == hs[h]
            mode == get_mode(heap, x)
        IN  /\ mode = "short" => capacity(x) = SHORTLEN
            /\ mode = "static" => capacity(x) = 0
            /\ mode \in {"unique", "cbowned (unique)", "cbowned (shared)"} =>
                  /\ capacity(x) = x.cap
                  /\ capacity(x) = heap[RegionOf(x.ptr)].cap
                  /\ capacity(x) >= x.len
            /\ mode \in {"cbinline (unique)", "cbinline (shared)"} =>
                  /\ capacity(x) = x.cbptr - x.ptr
                  /\ capacity(x) = heap[RegionOf(x.ptr)].cboff
                  /\ capacity(x) < x.cap
                  /\ capacity(x) >= x.len
                  /\ orig[h].by \in {"from_vec", "from_slice"} =>
                        capacity(x) >= x.cap - 2 * SIZEOF_USIZE

\* C26 witness: from_vec of a Vec with room to spare: the control block is
\* at the end of the allocation and capacity() is what lies before it.
C26_Witness ==
    /\ last.op = "from_vec"
    /\ get_mode(heap, hs[last.h]) = "cbinline (unique)"
    /\ hs[last.h].cap = Len(LVec) + 14
    /\ capacity(hs[last.h]) < hs[last.h].cap
    /\ capacity(hs[last.h]) >= hs[last.h].cap - 2 * SIZEOF_USIZE
    /\ capacity(hs[last.h]) > hs[last.h].len + SIZEOF_USIZE

\* a Long buffer as from_vec made it, with no room for a control block, that
\* nothing but clone and drop was applied to
FromVecTight(h) ==
    /\ hs[h].k = "long"
    /\ orig[h].by = "from_vec"
    /\ orig[h].fresh
    /\ ~RoomForControlBlock(hs[h].ptr, hs[h].len, hs[h].cap)
\* the handles to the payload of h, h among them
Sharers(h) == OtherUsers(h, hs[h].ptr) \cup {h}

\* what C27 says of the handle until a clone of it is dropped: from_vec gives
\* mode "unique", the capacity is that of the Vec throughout, and while there
\* are two handles or more each reports "cbowned (shared)"
TightModes(h) ==
    /\ capacity(hs[h]) = hs[h].cap
    /\ hs[h].cap = heap[RegionOf(hs[h].ptr)].cap
    /\ last.op = "from_vec" /\ last.h = h => get_mode(heap, hs[h]) = "unique"
    /\ hs[h].cbptr = NULL => get_mode(heap, hs[h]) = "unique" /\ Sharers(h) = {h}
    /\ Cardinality(Sharers(h)) >= 2 => get_mode(heap, hs[h]) = "cbowned (shared)"

\* C27 as stated: from_vec of more than SHORTLEN bytes in a Vec with no room
\* for a control block gives mode "unique"; after a clone both handles report
\* "cbowned (shared)"; after one of the two is dropped the other reports
\* "unique" again, with the capacity it had.
C27_UniqueAgain ==
    Quiescent =>
        \A h \in MAByteStrings : FromVecTight(h) =>
            /\ TightModes(h)
            /\ Sharers(h) = {h} => get_mode(heap, hs[h]) = "unique"

\* C27 amended: as stated, but the handle left after the drop reports
\* "cbowned (unique)": it keeps the control block the clone allocated, which
\* now counts one handle; its cbptr is not null again.
C27_SoleAgain ==
    Quiescent =>
        \A h \in MAByteStrings : FromVecTight(h) =>
            /\ TightModes(h)
            /\ Sharers(h) = {h} /\ hs[h].cbptr # NULL =>
                  /\ get_mode(heap, hs[h]) = "cbowned (unique)"
                  /\ IsBoxPtr(heap, hs[h].cbptr)
                  /\ CbLoad(heap, hs[h].cbptr) = 2

\* C27 witness: the clone of a buffer that from_vec made of a Vec of no spare
\* capacity was dropped; the handle left is the sole referent of the Box.
C27_Witness ==
    /\ last.op = "drop"
    /\ Quiescent
    /\ \E h \in MAByteStrings :
        /\ FromVecTight(h)
        /\ hs[h].cap = Len(LVec)
        /\ capacity(hs[h]) = Len(LVec)
        /\ get_mode(heap, hs[h]) = "cbowned (unique)"
        /\ Sharers(h) = {h}

\* C28: the clone of a unique Long buffer (null cbptr) that no other clone of
\* the same handle overlaps. Its first step allocates a Box holding 2 and
\* nothing else; its compare-and-swap stores the Box's address in the cbptr of
\* the handle cloned; and when it returns, the payload was neither copied nor
\* touched, one allocation was made in all, both handles have the same
\* pointer, length and capacity and point at the Box, and the Box holds 4:
\* a count of 2, the inline flag clear.
C28_CloneOfUnique ==
    [][/\ \A t \in Stepping("idle") :
            th'[t].pc = "cas" =>
                LET src == th'[t].src
                IN  /\ hs[src].cbptr = NULL
                    /\ hs' = hs
                    /\ last'.allocs = 1
                    /\ last'.frees = 0
                    /\ heap[RegionOf(th'[t].newcb)].st = "free"
                    /\ IsBoxPtr(heap', th'[t].newcb)
                    /\ CbLoad(heap', th'[t].newcb) = 2
                    /\ heap'[RegionOf(hs[src].ptr)] = heap[RegionOf(hs[src].ptr)]
       /\ \A t \in Stepping("cas") :
            hs[th[t].src].cbptr = NULL =>
                /\ hs' = [hs EXCEPT ![th[t].src].cbptr = th[t].newcb]
                /\ heap' = heap
                /\ th'[t].cbptr = th[t].newcb
       /\ \A t \in Stepping("inc") :
            run.h = th[t].src /\ ~run.par /\ run.clones = {} =>
                LET s == hs'[th[t].src]
                    c == hs'[th[t].dst]
                IN  /\ hs[th[t].dst] = NoHandle
                    /\ hs'[th[t].src] = hs[th[t].src]
                    /\ c.k = "long"
                    /\ c.ptr = s.ptr
                    /\ c.len = s.len
                    /\ c.cap = s.cap
                    /\ c.cbptr = s.cbptr
                    /\ s.cbptr = th[t].newcb
                    /\ IsBoxPtr(heap', s.cbptr)
                    /\ CbLoad(heap', s.cbptr) = 4
                    /\ run'.allocs = 1
                    /\ run'.frees = 0
                    /\ heap'[RegionOf(s.ptr)] = heap[RegionOf(s.ptr)]
                    /\ Deref(heap', c) = Deref(heap, hs[th[t].src])]_vars

\* C28 witness: the first clone of a unique Long buffer has returned: two
\* handles to one payload, a Box that counts both, one allocation.
C28_Witness ==
    /\ last.op = "clone"
    /\ run.h = last.src
    /\ ~run.par
    /\ run.clones = {last.h}
    /\ run.allocs = 1
    /\ Quiescent
    /\ hs[last.h].ptr = hs[last.src].ptr
    /\ hs[last.h].cbptr = hs[last.src].cbptr
    /\ IsBoxPtr(heap, hs[last.src].cbptr)
    /\ CbLoad(heap, hs[last.src].cbptr) = 4
    /\ get_mode(heap, hs[last.h]) = "cbowned (shared)"

\* C29: reserve(n) on a Long buffer that is unique or the sole referent of
\* its control block, with n no more than capacity(), changes nothing: the
\* handle (data pointer, length, capacity, control block pointer), memory
\* (bytes, control block), mode and capacity() are as before, nothing is
\* allocated or freed and no drop is left to do. The same holds of
\* reserve(n) and reserve_extra_internal(k) for every n and k that
\* capacity() covers, on every such buffer there is.
C29_ReserveWithinCapacity ==
    [][/\ /\ last'.op = "reserve"
          /\ IsSole(heap, hs[last'.h])
          /\ last'.req <= capacity(hs[last'.h])
          => /\ hs' = hs
             /\ heap' = heap
             /\ th' = th
             /\ last'.allocs = 0
             /\ last'.frees = 0
             /\ get_mode(heap', hs'[last'.h]) = get_mode(heap, hs[last'.h])
             /\ capacity(hs'[last'.h]) = capacity(hs[last'.h])
       /\ \A h \in MAByteStrings : Usable(h, "s") /\ IsSole(heap, hs[h]) =>
             /\ \A n \in 0..capacity(hs[h]) :
                   LET o == MAByteString_reserve(heap, hs[h], vecmis, n)
                   IN  o.h = hs[h] /\ o.m = heap /\ o.old = NoHandle /\ o.err = {}
             /\ \A k \in 0..(capacity(hs[h]) - hs[h].len) :
                   LET o == reserve_extra_internal(heap, hs[h], vecmis, k)
                   IN  o.h = hs[h] /\ o.m = heap /\ o.old = NoHandle /\ o.err = {}]_vars

\* C29 witness: reserve of the capacity it has, on a buffer whose inline
\* control block counts one handle; the buffer is as from_slice made it.
C29_Witness ==
    /\ last.op = "reserve"
    /\ last.req = Len(LMin)
    /\ last.allocs = 0
    /\ get_mode(heap, hs[last.h]) = "cbinline (unique)"
    /\ capacity(hs[last.h]) = last.req
    /\ Deref(heap, hs[last.h]) = LMin
    /\ orig[last.h].ok

\* C30: reserve(n) on a buffer with an inline control block that counts one
\* handle, with n more than capacity() and no more than the capacity of the
\* allocation, sets the cbptr to null and nothing else: the data pointer,
\* length and bytes are as before, nothing is allocated, freed or copied,
\* the mode is "unique" and capacity() the capacity of the allocation. And a
\* step of reserve or += that leaves the handle on its buffer with the cbptr
\* made null found an inline control block that counted this handle alone: on
\* a buffer counted more than once reserve moves the handle to another
\* allocation and leaves the payload and its control block as they were.
C30_DiscardInlineBlock ==
    [][LET o == hs[last'.h]
           n == hs'[last'.h]
       IN  /\ /\ last'.op = "reserve"
              /\ get_mode(heap, o) = "cbinline (unique)"
              /\ capacity(o) < last'.req
              /\ last'.req <= o.cap
              => /\ n = [o EXCEPT !.cbptr = NULL]
                 /\ heap' = heap
                 /\ th' = th
                 /\ Deref(heap', n) = Deref(heap, o)
                 /\ last'.allocs = 0
                 /\ last'.frees = 0
                 /\ get_mode(heap', n) = "unique"
                 /\ capacity(n) = o.cap
                 /\ capacity(n) >= last'.req
           /\ /\ last'.op \in {"reserve", "add_assign"}
              /\ LongShared(o)
              /\ o.cbptr # NULL
              /\ n.ptr = o.ptr
              /\ n.cbptr = NULL
              => /\ get_mode(heap, o) = "cbinline (unique)"
                 /\ PointingAt(o.cbptr) = {last'.h}
                 /\ ThreadUsers(o.ptr) = {}
           /\ last'.op = "reserve" /\ IsShared(heap, o) =>
                 /\ n.ptr # o.ptr
                 /\ heap'[RegionOf(o.ptr)] = heap[RegionOf(o.ptr)]
                 /\ CbLoad(heap', o.cbptr) = CbLoad(heap, o.cbptr)]_vars

\* C30 witness: reserve of one byte more than capacity() on a buffer that
\* from_slice made: the handle is on the same allocation, in mode "unique",
\* and its capacity() takes in the space the control block had.
C30_Witness ==
    /\ last.op = "reserve"
    /\ last.req = Len(LMin) + 1
    /\ last.allocs = 0
    /\ orig[last.h].by = "from_slice"
    /\ get_mode(heap, hs[last.h]) = "unique"
    /\ heap[RegionOf(hs[last.h].ptr)].cboff = Len(LMin)
    /\ capacity(hs[last.h]) = AlignUp(Len(LMin), ALIGNOF_ATOMIC) + SIZEOF_USIZE
    /\ Deref(heap, hs[last.h]) = LMin

\* capacity() of a handle of either type
CapacityOf(h) == IF h.ty = "b" THEN MAByteStringBuilder_capacity(h) ELSE capacity(h)

\* C31: when reserve(n), or += that brings the length to n, is called on a
\* Long MAByteString that is unique or the sole referent of its control
\* block, or on a Long builder, and n is more than the capacity c of its
\* allocation, the handle moves to one new allocation, its capacity() is at
\* least max(n, 2 * c), and the bytes and the length it had are those it has
\* (followed, for +=, by the bytes appended). The same holds of reserve with
\* any such n on any such buffer there is.
C31_ExponentialGrowth ==
    [][/\ last'.op \in {"reserve", "add_assign", "b_reserve", "b_add_assign"} =>
            LET o == hs[last'.h]
                n == hs'[last'.h]
                req == IF last'.op \in {"reserve", "b_reserve"} THEN last'.req ELSE LenOf(n)
            IN  IsSole(heap, o) /\ req > o.cap =>
                  /\ n.k = "long"
                  /\ n.ptr # o.ptr
                  /\ heap[RegionOf(n.ptr)].st = "free"
                  /\ last'.allocs = 1
                  /\ CapacityOf(n) >= Max(req, 2 * o.cap)
                  /\ IF last'.op \in {"reserve", "b_reserve"}
                     THEN n.len = o.len /\ Deref(heap', n) = Deref(heap, o)
                     ELSE n.len = req /\ SubSeq(Deref(heap', n), 1, o.len) = Deref(heap, o)
                  /\ err' = err
       /\ \A h \in Handles : hs[h].k # "none" /\ h \notin Borrowed /\ FreeRegions(heap) # {}
                             /\ IsSole(heap, hs[h]) =>
            \A n \in (hs[h].cap + 1)..MaxReq :
                LET o == IF hs[h].ty = "b"
                         THEN MAByteStringBuilder_reserve(heap, hs[h], vecmis, n)
                         ELSE MAByteString_reserve(heap, hs[h], vecmis, n)
                IN  /\ CapacityOf(o.h) >= Max(n, 2 * hs[h].cap)
                    /\ o.h.len = hs[h].len
                    /\ Deref(o.m, o.h) = Deref(heap, hs[h])]_vars

\* C31 witness: a byte was appended to a buffer that from_vec made of a Vec
\* with no spare capacity: the buffer is a new one of at least twice the
\* capacity, the old one is freed, and the bytes are the Vec's and the byte
\* appended.
C31_Witness ==
    /\ last.op = "add_assign"
    /\ last.allocs = 1
    /\ last.frees = 1
    /\ Deref(heap, hs[last.h]) = LVec \o << 7 >>
    /\ capacity(hs[last.h]) >= 2 * Len(LVec)
    /\ capacity(hs[last.h]) > Len(LVec) + 1

\* what C32 says of a step of reserve or += on a Short buffer; modes are the
\* modes a MAByteString made Long may be in when its allocation is at address p
PromotionStep(modes(_)) ==
    last'.op \in {"reserve", "add_assign", "b_reserve", "b_add_assign"} /\ IsInline(hs[last'.h]) =>
        LET o == hs[last'.h]
            n == hs'[last'.h]
            grow == last'.op \in {"add_assign", "b_add_assign"}
            req == IF grow THEN ShortLen(o) + 1 ELSE last'.req
        IN  IF req <= SHORTLEN
            THEN /\ IsInline(n)
                 /\ heap' = heap
                 /\ th' = th
                 /\ IF grow
                    THEN /\ ShortLen(n) = req
                         /\ SubSeq(n.data, 1, ShortLen(o)) = SubSeq(o.data, 1, ShortLen(o))
                    ELSE n = o
            ELSE /\ ~IsInline(n)
                 /\ n.k = "long"
                 /\ heap[RegionOf(n.ptr)].st = "free"
                 /\ IsPayloadPtr(heap', n.ptr)
                 /\ last'.allocs = 1
                 /\ last'.frees = 0
                 /\ CapacityOf(n) >= Max(req, 2 * SHORTLEN)
                 /\ n.len = IF grow THEN req ELSE ShortLen(o)
                 /\ SubSeq(Deref(heap', n), 1, ShortLen(o)) = Deref(heap, o)
                 /\ n.ty = "b" => n.cbptr = NULL
                 /\ n.ty = "s" => get_mode(heap', n) \in modes(n.ptr)

\* what C32 says of reserve(n) on the Short buffers there are
PromotionOutcome(modes(_)) ==
    \A h \in Handles : hs[h].k # "none" /\ IsInline(hs[h]) /\ FreeRegions(heap) # {} =>
        \A n \in 0..MaxReq :
            LET o == IF hs[h].ty = "b" THEN MAByteStringBuilder_reserve(heap, hs[h], vecmis, n)
                     ELSE MAByteString_reserve(heap, hs[h], vecmis, n)
            IN  IF n <= SHORTLEN THEN o.h = hs[h] /\ o.m = heap
                ELSE /\ ~IsInline(o.h)
                     /\ AllocCount(heap, o.m) = 1
                     /\ CapacityOf(o.h) >= Max(n, 2 * SHORTLEN)
                     /\ o.h.len = ShortLen(hs[h])
                     /\ Deref(o.m, o.h) = Deref(heap, hs[h])
                     /\ o.h.ty = "s" => get_mode(o.m, o.h) \in modes(o.h.ptr)

\* the mode C32 gives a MAByteString made Long
PromotedInline(p) == {"cbinline (unique)"}
\* the modes it can have: without a control block when the allocation is not
\* aligned for one and the control block does not fit after the padding
PromotedInlineWhenAligned(p) ==
    IF IsAligned(p) THEN {"cbinline (unique)"} ELSE {"cbinline (unique)", "unique"}

\* C32 as stated: a Short buffer asked (reserve(m), or += that brings the
\* length to m) for m bytes in all stays Short, its inline storage as it was,
\* when m <= SHORTLEN; when m > SHORTLEN it becomes Long in one new allocation
\* with capacity() >= max(m, 2 * SHORTLEN) and the bytes and length it had, a
\* builder without a control block and a MAByteString with an inline control
\* block of count 1.
C32_Promotion ==
    [][PromotionStep(PromotedInline) /\ PromotionOutcome(PromotedInline)]_vars

\* C32 amended: as C32, but the MAByteString has the inline control block of
\* count 1 when its new allocation is aligned for the control block; when it
\* is not, the buffer may have no control block at all (mode "unique").
C32_PromotionWhenAligned ==
    [][PromotionStep(PromotedInlineWhenAligned)
          /\ PromotionOutcome(PromotedInlineWhenAligned)]_vars

\* C32 witness: a byte was appended to a Short MAByteString of SHORTLEN bytes:
\* it is Long, with an inline control block of count 1, room for twice
\* SHORTLEN, and the bytes it had followed by the byte appended.
C32_Witness ==
    /\ last.op = "add_assign"
    /\ last.allocs = 1
    /\ Deref(heap, hs[last.h]) = SMax \o << 7 >>
    /\ get_mode(heap, hs[last.h]) = "cbinline (unique)"
    /\ capacity(hs[last.h]) >= 2 * SHORTLEN

\* the control block of Long buffer h is in the buffer's own allocation
HasInlineBlock(h) == h.cbptr # NULL /\ RegionOf(h.cbptr) = RegionOf(h.ptr)

\* the layout C33 requires of a Long buffer h that is not static, in memory m
LayoutOk(m, h) ==
    /\ IsPayloadPtr(m, h.ptr)
    /\ m[RegionOf(h.ptr)].cap = h.cap
    /\ h.len <= CapacityOf(h)
    /\ CapacityOf(h) <= h.cap
    /\ h.len <= Len(m[RegionOf(h.ptr)].bytes)
    /\ h.cbptr # NULL =>
          /\ h.ty = "s"
          /\ CbValid(m, h.cbptr)
          /\ CbLoad(m, h.cbptr) % 2 = (IF HasInlineBlock(h) THEN 1 ELSE 0)
    /\ HasInlineBlock(h) =>
          /\ h.cbptr - h.ptr >= h.len
          /\ h.cbptr - h.ptr + SIZEOF_USIZE <= h.cap
          /\ h.cbptr % ALIGNOF_ATOMIC = 0
          /\ capacity(h) = h.cbptr - h.ptr

\* C33: every Long buffer that is not static has length <= capacity() <= the
\* capacity of its allocation; an inline control block that is attached lies
\* wholly inside the allocation, aligned, at an offset that is at least the
\* length and is what capacity() reports; and a write through the handle (+=
\* of one byte or of several, or a byte stored through deref_mut) leaves the
\* buffer so laid out, with the control block it goes on using, if any, at
\* the value it had: no write runs over a live control block.
C33_Layout ==
    /\ err = {}
    /\ \A h \in Handles : hs[h].k # "none" /\ LongShared(hs[h]) => LayoutOk(heap, hs[h])
    /\ \A h \in Handles : Usable(h, "s") /\ LongShared(hs[h]) =>
          \A other \in {<< 7 >>, << 7, 7, 7 >>} :
              LET a == add_assign(heap, hs[h], vecmis, other)
                  d == deref_mut(heap, hs[h], vecmis, hs[h].len - 1, 9)
                  Kept(o) == /\ o.err = {}
                             /\ LayoutOk(o.m, o.h)
                             /\ o.h.cbptr # NULL /\ o.h.cbptr = hs[h].cbptr =>
                                   CbLoad(o.m, o.h.cbptr) = CbLoad(heap, hs[h].cbptr)
              IN  Kept(a) /\ Kept(d)
    /\ \A h \in Handles : Usable(h, "b") /\ LongShared(hs[h]) =>
          LET a == MAByteStringBuilder_add_assign(heap, hs[h], vecmis, << 7, 7, 7 >>)
          IN  a.err = {} /\ LayoutOk(a.m, a.h)

\* C33 witness: from_builder of a builder that from_slice made: the control
\* block is attached right where the bytes end, inside the allocation.
C33_Witness ==
    /\ last.op = "from_builder"
    /\ get_mode(heap, hs[last.h]) = "cbinline (unique)"
    /\ Deref(heap, hs[last.h]) = LMin
    /\ HasInlineBlock(hs[last.h])
    /\ hs[last.h].cbptr - hs[last.h].ptr = hs[last.h].len
    /\ capacity(hs[last.h]) = hs[last.h].len

\* the separately allocated control blocks that nothing refers to any more:
\* no handle's cbptr, no clone or drop in progress
LeakedBoxes ==
    {r \in Regions :
        /\ heap[r].st = "box"
        /\ PointingAt(Base(heap, r)) = {}
        /\ \A t \in Threads :
              /\ th[t].newcb # Base(heap, r)
              /\ th[t].cbptr # Base(heap, r)
              /\ th[t].long.k = "none" \/ th[t].long.cbptr # Base(heap, r)}

\* C34: no control block is leaked: every separately allocated control block
\* that is still allocated is the control block of a live handle, or of a
\* clone or drop in progress; so when every handle to a payload has been
\* dropped or consumed (into_vec, from_mabs, from_builder), its control block
\* has been freed, and into_vec on the sole handle of a buffer with a
\* separately allocated control block frees that control block.
C34_NoLeakedControlBlock == LeakedBoxes = {}

\* the step is the fetch_sub of the drop, by thread t, of InnerLong l, which
\* has a control block
Releases(t, l) ==
    /\ l.k = "long"
    /\ l.cap # 0
    /\ l.cbptr # NULL
    /\ \/ last'.op = "drop" /\ l = hs[last'.h] /\ t = SetMin(IdleThreads)
       \/ last'.op = "drop_dec" /\ th[t].pc = "dec" /\ th'[t].pc # "dec" /\ l = th[t].long

\* the InnerLongs a step may be the release of
Released == {hs[h] : h \in Handles} \cup {th[t].long : t \in Threads}

\* C35 as stated: the release of a handle with a control block goes on to free
\* the payload when, and only when, the control block's value after the
\* subtraction of 2 is 3 or less, and that is so exactly when the count before
\* the release was 1.
C35_FreeWhenValueAfterAtMost3 ==
    [][\A t \in Threads, l \in Released : Releases(t, l) =>
          LET after == CbLoad(heap', l.cbptr)
              before == CbLoad(heap, l.cbptr)
          IN  /\ th'[t].pc = "free" <=> after <= 3
              /\ after <= 3 <=> before \div 2 = 1]_vars

\* C35 amended: the release goes on to free the payload when, and only when,
\* the value that fetch_sub returns, which is the value before the
\* subtraction, is 3 or less, that is when the value after it is 1 or less;
\* this is so exactly when the count before the release was 1. The payload
\* (and a separately allocated control block) is then freed by that thread,
\* and a drop in progress frees only after such a release.
C35_FreeWhenValueBeforeAtMost3 ==
    [][/\ \A t \in Threads, l \in Released : Releases(t, l) =>
            LET after == CbLoad(heap', l.cbptr)
                before == CbLoad(heap, l.cbptr)
            IN  /\ after = before - 2
                /\ before >= 2
                /\ th'[t].pc = "free" <=> before <= 3
                /\ before <= 3 <=> after <= 1
                /\ before <= 3 <=> before \div 2 = 1
                /\ th'[t].pc = "free" => th'[t].long = l /\ th'[t].oldcb = before
                /\ th'[t].pc # "free" => th'[t].pc = "idle" /\ last'.frees = 0
       /\ last'.op = "drop_free" =>
            \A t \in Threads : th[t].pc = "free" /\ th'[t].pc = "idle" =>
                /\ th[t].oldcb \in {2, 3}
                /\ heap[RegionOf(th[t].long.ptr)].st = "payload"
                /\ heap'[RegionOf(th[t].long.ptr)].st = "free"
                /\ last'.frees = (IF th[t].oldcb = 2 THEN 2 ELSE 1)]_vars

\* C35 witness: the last handle to a payload with a separately allocated
\* control block was released: the value was 2 and is 0, and the thread is
\* about to free the payload, which is still allocated.
C35_Witness ==
    /\ last.op = "drop"
    /\ last.atomics = 1
    /\ \E t \in Threads :
          /\ th[t].pc = "free"
          /\ th[t].oldcb = 2
          /\ CbLoad(heap, th[t].long.cbptr) = 0
          /\ IsPayloadPtr(heap, th[t].long.ptr)

\* what a step did from its fetch_sub on
RECURSIVE FromFetchSub(_)
FromFetchSub(s) ==
    IF s = << >> THEN << >>
    ELSE IF Head(s) = "fetch_sub.Release" THEN s
    ELSE FromFetchSub(Tail(s))

\* the orders in which a drop that runs in one piece may do its work
DropOrders ==
    { << >>,
      << "fetch_sub.Release" >>,
      << "fetch_sub.Release", "fence.Acquire", "free.ptr" >>,
      << "fetch_sub.Release", "fence.Acquire", "free.cbptr", "free.ptr" >> }

\* C36: the drop of a handle with a control block is, in this order: the
\* fetch_sub of 2, with release ordering, which changes the control block's
\* value and nothing else; then, only when the value it returned is 3 or
\* less, an acquire fence, the free of the control block if the value
\* returned has the inline flag clear (and the block is then a Box), and the
\* free of the payload. When the value returned is more than 3 the thread is
\* done: it takes no fence, keeps no pointer and touches neither the control
\* block nor the payload again.
C36_DropOrder ==
    [][/\ \A t \in Threads, l \in Released : Releases(t, l) =>
            /\ last'.ord = << "fetch_sub.Release" >>
            /\ last'.frees = 0
            /\ heap' = CbStore(heap, l.cbptr, CbLoad(heap, l.cbptr) - 2)
            /\ IF CbLoad(heap, l.cbptr) > 3
               THEN th'[t] = Idle
               ELSE /\ th'[t].pc = "free"
                    /\ th'[t].long = l
                    /\ th'[t].oldcb = CbLoad(heap, l.cbptr)
       /\ last'.op = "drop_free" =>
            \A t \in Threads : th[t].pc = "free" /\ th'[t].pc = "idle" =>
                LET l == th[t].long
                    box == th[t].oldcb % 2 = 0
                IN  /\ th[t].oldcb <= 3
                    /\ last'.ord = << "fence.Acquire" >>
                                      \o (IF box THEN << "free.cbptr" >> ELSE << >>)
                                      \o << "free.ptr" >>
                    /\ box <=> IsBoxPtr(heap, l.cbptr)
                    /\ box => heap'[RegionOf(l.cbptr)].st = "free"
                    /\ last'.frees = (IF box THEN 2 ELSE 1)
                    /\ IsPayloadPtr(heap, l.ptr)
                    /\ heap'[RegionOf(l.ptr)].st = "free"
                    /\ err' = err
       /\ FromFetchSub(last'.ord) \in DropOrders
       /\ \A i \in 1..Len(last'.ord) : last'.ord[i] = "fence.Acquire" =>
            /\ last'.frees >= 1
            /\ last'.op = "drop_free" \/ (i > 1 /\ last'.ord[i - 1] = "fetch_sub.Release")]_vars

\* C36 witness: the thread that released the last handle to a payload with a
\* separately allocated control block has taken the fence and freed the
\* control block and then the payload.
C36_Witness ==
    /\ last.op = "drop_free"
    /\ last.ord = << "fence.Acquire", "free.cbptr", "free.ptr" >>
    /\ last.frees = 2
    /\ \A t \in Threads : th[t].pc = "idle"

\* C37: when make_unique (in deref_mut, +=, reserve, into_vec, from_mabs) or
\* clear finds a count of 1 on the control block of a buffer of which a clone
\* was released earlier (the control block is a Box, which only a clone
\* allocates), and keeps the payload to write to it in place, the step has
\* an acquire load of the control block's value, or an acquire fence after
\* its load, to pair with the release fetch_sub of that clone's drop.
C37_AcquireWhenSole ==
    [][last'.op \in {"deref_mut", "add_assign", "reserve", "clear", "into_vec", "from_mabs"} =>
          LET o == hs[last'.h]
              kept == IF last'.op = "into_vec" THEN vec'.ptr = o.ptr
                      ELSE hs'[last'.h].k = "long" /\ hs'[last'.h].ptr = o.ptr
          IN  /\ LongShared(o)
              /\ o.cbptr # NULL
              /\ IsBoxPtr(heap, o.cbptr)
              /\ CbLoad(heap, o.cbptr) \div 2 = 1
              /\ kept
              => \E i \in 1..Len(last'.ord) :
                    last'.ord[i] \in {"load.Acquire", "fence.Acquire"}]_vars

\* C38: for every Short length n in 0..SHORTLEN the length byte n + 0x80 fits
\* in a byte, is at least 0x80 and decodes to n; every Long handle there is
\* has a length whose most significant byte is less than 0x80; and so the
\* test that get_mode, deref, clone and drop make of the length word tells,
\* of every handle there is and in every build, the layout the handle was
\* last written in.
C38_Discriminant ==
    /\ \A n \in 0..SHORTLEN :
          /\ Short("s", Pattern(n, 0)).slen = n + 128
          /\ n + 128 <= 255
          /\ n + 128 >= 128
          /\ ShortLen(Short("s", Pattern(n, 0))) = n
          /\ LenWord(Short("s", Pattern(n, 0))) \div (256 ^ (SIZEOF_USIZE - 1)) = n + 128
    /\ \A h \in Handles : hs[h].k = "long" => LenTopByte(hs[h]) < 128
    /\ \A h \in Handles : hs[h].k # "none" =>
          \A a \in FnAddrs : IsInlineAt(a, hs[h]) <=> hs[h].k = "short"

\* the items in order, with sep between every two that are adjacent
RECURSIVE Joined(_, _)
Joined(sep, items) ==
    IF items = << >> THEN << >>
    ELSE IF Len(items) = 1 THEN Head(items)
    ELSE Head(items) \o sep \o Joined(sep, Tail(items))

\* C39: the builder that join returns holds the items' bytes in the order the
\* iterator gave them, with the separator between every two adjacent items
\* and none before the first or after the last: nothing for no items, the
\* item for one, and so for a block of 8 items less one, a block, a block and
\* one, and two blocks; the separator and every other handle are as they were
\* and no memory error is met.
C39_Join ==
    [][last'.op = "join" =>
          LET sep == Deref(heap, hs[last'.src])
              items == orig'[last'.h].s
              result == Deref(heap', hs'[last'.h])
          IN  /\ result = Joined(sep, items)
              /\ LenOf(hs'[last'.h]) = Len(Joined(sep, items))
              /\ hs'[last'.h].ty = "b"
              /\ MAByteStringBuilder_get_mode(heap', hs'[last'.h]) \in {"short", "unique"}
              /\ \A h \in Handles \ {last'.h} :
                    /\ hs'[h] = hs[h]
                    /\ hs[h].k # "none" => Deref(heap', hs'[h]) = Deref(heap, hs[h])
              /\ err' = {}]_vars

\* C39 witness: join of a block and one item with a separator of two bytes:
\* the ninth item follows the eighth and a separator, and nothing follows it.
C39_Witness ==
    /\ last.op = "join"
    /\ Len(orig[last.h].s) = ITERBLOCKLEN + 1
    /\ Deref(heap, hs[last.src]) = JoinSep
    /\ LET r == Deref(heap, hs[last.h])
       IN  /\ Len(r) = ITERBLOCKLEN + 1 + 2 * ITERBLOCKLEN
           /\ SubSeq(r, Len(r) - 3, Len(r)) = << ITERBLOCKLEN >> \o JoinSep \o << ITERBLOCKLEN + 1 >>
           /\ SubSeq(r, 1, 4) = << 1 >> \o JoinSep \o << 2 >>

\* the two lowercase hexadecimal digits of a byte
HexDigit(n) == IF n < 10 THEN 48 + n ELSE 97 + (n - 10)
\* what one byte is to be written as
Escaped(c) ==
    IF c = 92 THEN << 92, 92 >>
    ELSE IF c = 34 THEN << 92, 34 >>
    ELSE IF c >= 32 /\ c <= 126 THEN << c >>
    ELSE << 92, 120, HexDigit(c \div 16), HexDigit(c % 16) >>
RECURSIVE EscapedAll(_)
EscapedAll(s) == IF s = << >> THEN << >> ELSE Escaped(Head(s)) \o EscapedAll(Tail(s))

\* what fmt wrote is b, a quote, every byte of the buffer in order as it is
\* to be written, and a quote
DebugAsSaid(op) ==
    last.op = op => last.out = << 98, 34 >> \o EscapedAll(Deref(heap, hs[last.h])) \o << 34 >>

\* C40: Debug formatting of a byte buffer, by either copy of bytes_debug,
\* writes b and a double quote, then every byte in order (verbatim for 0x20
\* to 0x7E but backslash and double quote, two backslashes for a backslash,
\* backslash and double quote for a double quote, backslash, x and two
\* lowercase hexadecimal digits for any other byte), then a double quote, with
\* no byte dropped or written twice.
C40_DebugFormat == DebugAsSaid("debug") /\ DebugAsSaid("lib_debug")
====
